---- MODULE Spec2Model ----
(***************************************************************************)
(* A model of the CVM analysis pipeline: the company-universe filter of    *)
(* CVMDataCollector, the statement reshapers of FinancialProcessor, the    *)
(* ratio engine of FinancialIndicators and the commands of main.py that    *)
(* chain them.  DataFrames are modelled as sequences of rows; pandas'      *)
(* pivot, assign, concat and float division are modelled by what they do   *)
(* (duplicate keys raise ValueError, a missing column raises KeyError,     *)
(* x/0 is +-inf and 0/0 is NaN).                                           *)
(***************************************************************************)
EXTENDS Integers, Sequences, FiniteSets, TLC

VARIABLES
    registry,      \* rows of the remote feed cad_cia_aberta.csv
    info,          \* what download_company_info returned
    raw,           \* data/raw: companies.csv and the range-named statement files
    companies,     \* FinancialProcessor.companies
    bp, dre, dfc,  \* cmd_process locals: the three reshaped tables
    processed,     \* data/processed: the files written so far, in order
    ind_companies, \* FinancialIndicators.companies
    df_dfp,        \* FinancialIndicators._df_dfp
    ret,           \* the last direct method call: [op, arg, val]
    pc,            \* position of the running command
    server,        \* dados.cvm.gov.br: the registry fetch and the yearly archives
    disk,          \* the collector's data/raw: ZIP archives and extracted CSV files
    attempts,      \* the years wget.download was called for, in order
    downloaded,    \* download_dfp's downloaded_files
    data,          \* what concatenate_statements returned
    first,         \* the output tables of an earlier run of the same steps
    cli            \* a main.py invocation: its command, its effects, its exit code

others == <<server, disk, attempts, downloaded, data, first, cli>>

vars == <<registry, info, raw, companies, bp, dre, dfc, processed,
          ind_companies, df_dfp, ret, pc, server, disk, attempts, downloaded,
          data, first, cli>>

(***************************************************************************)
(* Bounds of the model.                                                    *)
(***************************************************************************)
MaxReg == 2     \* rows of the registry feed
MaxRows == 3    \* rows of the raw statement file(s) one reshaper call reads
MaxMult == 2    \* generated account values are 0..MaxMult
MaxAbsent == 1  \* accounts a generated ratio input may lack
MaxExtra == 1   \* extra rows appended to a generated ratio input
MaxYears == 2   \* years of the collected range
MaxKinds == 2   \* statement kinds an archive holds files of
MaxLines == 1   \* data rows of an extracted CSV file
MaxSymbols == 2 \* symbols on the command line of the quotes command

(***************************************************************************)
(* Strings and their order.  Python and pandas sort strings by code point; *)
(* the sequences below list the strings of the model in that order.        *)
(***************************************************************************)
Range(s) == {s[i] : i \in 1..Len(s)}

SortedNames == <<"ACME S.A.", "BANCO XYZ S.A.">>
SortedDates == <<"2022-12-31", "2023-12-31">>
SortedLabels ==
    <<"1", "1.01", "1.01.01", "1.01.04", "1.01.07", "1.02",
      "2", "2.01", "2.01.04", "2.02", "2.02.01", "2.03",
      "3.01", "3.02", "3.03", "3.05", "3.08", "3.09", "3.11",
      "6.01", "6.05.02", "9.99",
      "Ativo Circulante", "Ativo Não Circulante", "Ativo Total",
      "Caixa Líquido Atividades Operacionais",
      "Caixa e Equivalentes de Caixa",
      "Custo dos Bens e/ou Serviços Vendidos",
      "Despesas Antecipadas",
      "Empréstimos e Financiamentos",
      "Estoques",
      "Imposto de Renda e Contribuição Social sobre o Lucro",
      "Lucro/Prejuízo Consolidado do Período",
      "Outras Contas",
      "Passivo Circulante", "Passivo Não Circulante", "Passivo Total",
      "Patrimônio Líquido Consolidado",
      "Receita de Venda de Bens e/ou Serviços",
      "Resultado Antes do Resultado Financeiro e dos Tributos",
      "Resultado Bruto",
      "Saldo Final de Caixa e Equivalentes">>

Rank(seq, s) == CHOOSE i \in 1..Len(seq) : seq[i] = s

\* The elements of S in ascending order of the rank function rk.
RECURSIVE SortByRank(_, _)
SortByRank(S, rk) ==
    IF S = {} THEN <<>>
    ELSE LET m == CHOOSE x \in S : \A y \in S : rk[x] <= rk[y]
         IN <<m>> \o SortByRank(S \ {m}, rk)

ULTIMO == "ÚLTIMO"
PENULTIMO == "PENÚLTIMO"

(***************************************************************************)
(* Floating-point values: a finite value is the fraction n/d in lowest     *)
(* terms with d > 0; the other values are NaN, +inf and -inf.              *)
(***************************************************************************)
RECURSIVE GCD(_, _)
GCD(a, b) == IF b = 0 THEN a ELSE GCD(b, a % b)

Abs(x) == IF x < 0 THEN -x ELSE x

NaN == [k |-> "nan", n |-> 0, d |-> 1]
PosInf == [k |-> "inf", n |-> 1, d |-> 1]
NegInf == [k |-> "inf", n |-> -1, d |-> 1]

Fin(n, d) ==
    LET s == IF d < 0 THEN -1 ELSE 1
        g == GCD(Abs(n), Abs(d))
    IN [k |-> "fin", n |-> (s * n) \div g, d |-> (s * d) \div g]

Float(v) == Fin(v, 1)

IsNaN(x) == x.k = "nan"
IsInf(x) == x.k = "inf"
IsFin(x) == x.k = "fin"

\* x + y of IEEE 754
FAdd(x, y) ==
    IF IsNaN(x) \/ IsNaN(y) THEN NaN
    ELSE IF IsInf(x) /\ IsInf(y) THEN (IF x.n = y.n THEN x ELSE NaN)
    ELSE IF IsInf(x) THEN x
    ELSE IF IsInf(y) THEN y
    ELSE Fin(x.n * y.d + y.n * x.d, x.d * y.d)

FNeg(x) == IF IsNaN(x) THEN NaN ELSE [x EXCEPT !.n = -x.n]

\* x - y of IEEE 754
FSub(x, y) == FAdd(x, FNeg(y))

Sign(n) == IF n < 0 THEN -1 ELSE 1

\* x * y of IEEE 754
FMul(x, y) ==
    IF IsNaN(x) \/ IsNaN(y) THEN NaN
    ELSE IF IsInf(x) \/ IsInf(y)
         THEN (IF x.n = 0 \/ y.n = 0 THEN NaN
               ELSE IF Sign(x.n) = Sign(y.n) THEN PosInf ELSE NegInf)
    ELSE Fin(x.n * y.n, x.d * y.d)

\* x / y of numpy and pandas: no exception, x/0 is +-inf, 0/0 is NaN
FDiv(x, y) ==
    IF IsNaN(x) \/ IsNaN(y) THEN NaN
    ELSE IF IsInf(x) /\ IsInf(y) THEN NaN
    ELSE IF IsInf(x) THEN (IF Sign(x.n) = Sign(y.n) THEN PosInf ELSE NegInf)
    ELSE IF IsInf(y) THEN Float(0)
    ELSE IF y.n = 0
         THEN (IF x.n = 0 THEN NaN ELSE IF x.n > 0 THEN PosInf ELSE NegInf)
    ELSE Fin(x.n * y.d, x.d * y.n)

(***************************************************************************)
(* DataFrames.  A long frame is a sequence of filing rows                  *)
(* [DT_REFER, DENOM_CIA, CD_CONTA, DS_CONTA, VL_CONTA, ORDEM_EXERC]; a     *)
(* wide table is [err, cols, rows], err naming the exception raised ("" if *)
(* none), cols the column labels in order and rows the sequence of         *)
(* [DT_REFER, DENOM_CIA, cells], cells mapping the other labels to floats. *)
(***************************************************************************)
LongColumns ==
    {"DT_REFER", "DENOM_CIA", "CD_CONTA", "DS_CONTA", "VL_CONTA", "ORDEM_EXERC"}

KeyColumns == <<"DT_REFER", "DENOM_CIA">>

Raised(e) == [err |-> e, cols |-> <<>>, rows |-> <<>>]

Returned(t) == t.err = ""

Labels(t) == Range(t.cols) \ Range(KeyColumns)

Keys(t) == {<<t.rows[i].DT_REFER, t.rows[i].DENOM_CIA>> : i \in 1..Len(t.rows)}

Names(t) == {t.rows[i].DENOM_CIA : i \in 1..Len(t.rows)}

\* x[label] of a wide table: the column must exist
HasColumns(t, ls) == ls \subseteq Range(t.cols)

KeyRank ==
    [k \in Range(SortedDates) \X Range(SortedNames) |->
        Rank(SortedDates, k[1]) * (Len(SortedNames) + 1) + Rank(SortedNames, k[2])]

LabelRank == [l \in Range(SortedLabels) |-> Rank(SortedLabels, l)]

\* A reshape that keeps the last of two rows sharing (DT_REFER, DENOM_CIA, label)
\* instead of raising (what pivot_table(aggfunc='last') would do).
pivot_keep_last(rows, by) ==
    LET idx == 1..Len(rows)
        keys == {<<rows[i].DT_REFER, rows[i].DENOM_CIA>> : i \in idx}
        labels == {rows[i][by] : i \in idx}
        cell(k, l) ==
            LET hit == {i \in idx : /\ rows[i].DT_REFER = k[1]
                                    /\ rows[i].DENOM_CIA = k[2]
                                    /\ rows[i][by] = l}
            IN IF hit = {} THEN NaN
               ELSE Float(rows[CHOOSE i \in hit : \A j \in hit : j <= i].VL_CONTA)
        sorted == SortByRank(keys, KeyRank)
    IN [err |-> "",
        cols |-> KeyColumns \o SortByRank(labels, LabelRank),
        rows |-> [i \in 1..Len(sorted) |->
                    [DT_REFER |-> sorted[i][1],
                     DENOM_CIA |-> sorted[i][2],
                     cells |-> [l \in labels |-> cell(sorted[i], l)]]]]

\* DataFrame.pivot(index=['DT_REFER', 'DENOM_CIA'], columns=by, values='VL_CONTA')
\* followed by reset_index(): one row per index pair, one column per label,
\* both sorted; NaN where a pair has no row for a label; ValueError ("Index
\* contains duplicate entries, cannot reshape") when two rows share
\* (DT_REFER, DENOM_CIA, label).
pivot(rows, by) ==
    LET idx == 1..Len(rows)
        dup == \E i, j \in idx :
                   /\ i < j
                   /\ rows[i].DT_REFER = rows[j].DT_REFER
                   /\ rows[i].DENOM_CIA = rows[j].DENOM_CIA
                   /\ rows[i][by] = rows[j][by]
        keys == {<<rows[i].DT_REFER, rows[i].DENOM_CIA>> : i \in idx}
        labels == {rows[i][by] : i \in idx}
        cell(k, l) ==
            LET hit == {i \in idx : /\ rows[i].DT_REFER = k[1]
                                    /\ rows[i].DENOM_CIA = k[2]
                                    /\ rows[i][by] = l}
            IN IF hit = {} THEN NaN
               ELSE Float(rows[CHOOSE i \in hit : TRUE].VL_CONTA)
        sorted == SortByRank(keys, KeyRank)
    IN IF dup THEN Raised("ValueError")
       ELSE [err |-> "",
             cols |-> KeyColumns \o SortByRank(labels, LabelRank),
             rows |-> [i \in 1..Len(sorted) |->
                         [DT_REFER |-> sorted[i][1],
                          DENOM_CIA |-> sorted[i][2],
                          cells |-> [l \in labels |-> cell(sorted[i], l)]]]]

(***************************************************************************)
(* FinancialProcessor: the statement reshapers.                            *)
(***************************************************************************)
BalanceSheetAccounts ==
    {"Ativo Total", "Passivo Total", "Patrimônio Líquido Consolidado",
     "Ativo Circulante", "Ativo Não Circulante", "Passivo Circulante",
     "Passivo Não Circulante"}

IncomeStatementAccounts ==
    {"Receita de Venda de Bens e/ou Serviços",
     "Custo dos Bens e/ou Serviços Vendidos",
     "Lucro/Prejuízo Consolidado do Período"}

IncomeStatementCodes == {"3.11", "3.01", "3.02"}

CashFlowAccounts ==
    {"Caixa Líquido Atividades Operacionais",
     "Caixa Líquido Atividades de Investimento",
     "Caixa Líquido Atividades de Financiamento",
     "Aumento (Redução) de Caixa e Equivalentes",
     "Saldo Inicial de Caixa e Equivalentes",
     "Saldo Final de Caixa e Equivalentes"}

\* the row mask of process_balance_sheet
BalanceSheetMask(r, universe) ==
    /\ r.DS_CONTA \in BalanceSheetAccounts
    /\ r.DENOM_CIA \in Range(universe)
    /\ r.ORDEM_EXERC = ULTIMO

\* The income-statement mask without the test of ORDEM_EXERC.
IncomeStatementMask_AnyOrder(r, universe) ==
    /\ r.DS_CONTA \in IncomeStatementAccounts
    /\ r.DENOM_CIA \in Range(universe)
    /\ r.CD_CONTA \in IncomeStatementCodes

\* the row mask of process_income_statement
IncomeStatementMask(r, universe) ==
    /\ r.DS_CONTA \in IncomeStatementAccounts
    /\ r.DENOM_CIA \in Range(universe)
    /\ r.CD_CONTA \in IncomeStatementCodes
    /\ r.ORDEM_EXERC = ULTIMO

\* the row mask of process_cash_flow
CashFlowMask(r, universe) ==
    /\ r.DS_CONTA \in CashFlowAccounts
    /\ r.DENOM_CIA \in Range(universe)
    /\ r.ORDEM_EXERC = ULTIMO

Passivo(x) == FSub(x["Passivo Total"], x["Patrimônio Líquido Consolidado"])

\* .assign(passivo=lambda x: ...): a new last column computed row by row;
\* KeyError when the lambda reads a column the table does not have.
assign_passivo(t) ==
    IF ~Returned(t) THEN t
    ELSE IF ~HasColumns(t, {"Passivo Total", "Patrimônio Líquido Consolidado"})
    THEN Raised("KeyError")
    ELSE [err |-> "",
          cols |-> Append(t.cols, "passivo"),
          rows |-> [i \in 1..Len(t.rows) |->
                      [t.rows[i] EXCEPT !.cells =
                          [l \in DOMAIN t.rows[i].cells \cup {"passivo"} |->
                              IF l = "passivo" THEN Passivo(t.rows[i].cells)
                              ELSE t.rows[i].cells[l]]]]]

process_balance_sheet(bpa, bpp, universe) ==
    LET frame == bpa \o bpp
        filtered == SelectSeq(frame, LAMBDA r : BalanceSheetMask(r, universe))
    IN assign_passivo(pivot(filtered, "DS_CONTA"))

process_income_statement(frame, universe) ==
    pivot(SelectSeq(frame, LAMBDA r : IncomeStatementMask(r, universe)), "DS_CONTA")

process_cash_flow(frame, universe) ==
    pivot(SelectSeq(frame, LAMBDA r : CashFlowMask(r, universe)), "DS_CONTA")

(***************************************************************************)
(* Input universes: the rows a raw statement file may hold.                *)
(***************************************************************************)
BoundedSeq(S, n) == UNION {[1..k -> S] : k \in 0..n}

Account(cd, ds) == [CD_CONTA |-> cd, DS_CONTA |-> ds]

FilingRows(dates, names, accounts, values, orders) ==
    {[DT_REFER |-> dt, DENOM_CIA |-> c, CD_CONTA |-> a.CD_CONTA,
      DS_CONTA |-> a.DS_CONTA, VL_CONTA |-> v, ORDEM_EXERC |-> o] :
        dt \in dates, c \in names, a \in accounts, v \in values, o \in orders}

Values == 1..MaxMult

BalanceSheetRows ==
    FilingRows({"2023-12-31"}, Range(SortedNames),
               {Account("2", "Passivo Total"),
                Account("2.03", "Patrimônio Líquido Consolidado"),
                Account("9.99", "Outras Contas")},
               Values, {ULTIMO, PENULTIMO})

IncomeStatementRows ==
    FilingRows({"2023-12-31"}, Range(SortedNames),
               {Account("3.01", "Receita de Venda de Bens e/ou Serviços"),
                Account("3.11", "Lucro/Prejuízo Consolidado do Período"),
                Account("3.09", "Lucro/Prejuízo Consolidado do Período"),
                Account("9.99", "Outras Contas")},
               Values, {ULTIMO, PENULTIMO})

CashFlowRows ==
    FilingRows({"2023-12-31"}, Range(SortedNames),
               {Account("6.01", "Caixa Líquido Atividades Operacionais"),
                Account("6.05.02", "Saldo Final de Caixa e Equivalentes"),
                Account("9.99", "Outras Contas")},
               Values, {ULTIMO, PENULTIMO})

(***************************************************************************)
(* companies.csv: Series.to_csv(index=False) writes the header line and    *)
(* one line per name; read_csv takes the first line as the header and      *)
(* load_companies returns the first column of what follows.                *)
(***************************************************************************)
to_csv(header, values) == <<header>> \o values

load_companies(lines) == Tail(lines)

CompanyLists == BoundedSeq(Range(SortedNames), 2)

(***************************************************************************)
(* Direct use of a FinancialProcessor object: an optional load_companies,  *)
(* then one reshaper call on the file content it reads.                    *)
(***************************************************************************)
NoTable == Raised("not called")
NoCall == [op |-> "", arg |-> <<>>, val |-> NoTable]
NoFrame == [kind |-> "none", long |-> <<>>, wide |-> NoTable]
NoRaw == [companies_csv |-> <<>>, present |-> FALSE,
          BPA_con |-> <<>>, BPP_con |-> <<>>, DRE_con |-> <<>>, DFC_MI_con |-> <<>>]

ProcessOps ==
    {"process_balance_sheet", "process_income_statement", "process_cash_flow"}

\* The collector's and the command line's state while neither is running.
IdleOthers ==
    /\ server = <<>> /\ disk = <<>>
    /\ attempts = <<>> /\ downloaded = <<>> /\ data = <<>>
    /\ first = <<>> /\ cli = <<>>

InitProcessor ==
    /\ IdleOthers
    /\ registry = <<>> /\ info = <<>> /\ raw = NoRaw
    /\ companies = <<>>
    /\ bp = NoTable /\ dre = NoTable /\ dfc = NoTable
    /\ processed = <<>>
    /\ ind_companies = <<>> /\ df_dfp = NoFrame
    /\ ret = NoCall
    /\ pc = "new"

LoadCompanies ==
    /\ pc = "new"
    /\ \E names \in CompanyLists :
           companies' = load_companies(to_csv("DENOM_SOCIAL", names))
    /\ pc' = "loaded"
    /\ UNCHANGED others
    /\ UNCHANGED <<registry, info, raw, bp, dre, dfc, processed,
                   ind_companies, df_dfp, ret>>

Callable == pc \in {"new", "loaded"}

Call(op, arg, val) ==
    /\ ret' = [op |-> op, arg |-> arg, val |-> val]
    /\ pc' = "returned"
    /\ UNCHANGED others
    /\ UNCHANGED <<registry, info, raw, companies, bp, dre, dfc, processed,
                   ind_companies, df_dfp>>

ProcessBalanceSheet ==
    /\ Callable
    /\ \E frame \in BoundedSeq(BalanceSheetRows, MaxRows) :
        \E k \in 0..Len(frame) :
            LET bpa == SubSeq(frame, 1, k)
                bpp == SubSeq(frame, k + 1, Len(frame))
            IN Call("process_balance_sheet", bpa \o bpp,
                    process_balance_sheet(bpa, bpp, companies))

ProcessIncomeStatement ==
    /\ Callable
    /\ \E frame \in BoundedSeq(IncomeStatementRows, MaxRows) :
        Call("process_income_statement", frame,
             process_income_statement(frame, companies))

ProcessCashFlow ==
    /\ Callable
    /\ \E frame \in BoundedSeq(CashFlowRows, MaxRows) :
        Call("process_cash_flow", frame, process_cash_flow(frame, companies))

NextProcessor ==
    \/ LoadCompanies
    \/ ProcessBalanceSheet
    \/ ProcessIncomeStatement
    \/ ProcessCashFlow

SpecProcessor == InitProcessor /\ [][NextProcessor]_vars

(***************************************************************************)
(* FinancialIndicators: load_data and the four ratio families.  A frame    *)
(* handed to load_data is [kind, long, wide]: a long frame of filing rows  *)
(* (kind "long") or a wide table (kind "wide"); kind "none" is None.       *)
(***************************************************************************)
LongFrame(rows) == [kind |-> "long", long |-> rows, wide |-> NoTable]

WideFrame(t) == [kind |-> "wide", long |-> <<>>, wide |-> t]

Columns(df) ==
    CASE df.kind = "long" -> LongColumns
      [] df.kind = "wide" -> Range(df.wide.cols)
      [] OTHER -> {}

\* pd.concat([a, b], axis=0) of two wide tables: the union of the columns,
\* a's rows then b's rows, NaN where a row has no value for a column.
concat_wide(a, b) ==
    LET labels == Labels(a) \cup Labels(b)
        widen(r) == [r EXCEPT !.cells =
                        [l \in labels |->
                            IF l \in DOMAIN r.cells THEN r.cells[l] ELSE NaN]]
        both == a.rows \o b.rows
    IN [err |-> "",
        cols |-> a.cols \o SelectSeq(b.cols, LAMBDA c : c \notin Range(a.cols)),
        rows |-> [i \in 1..Len(both) |-> widen(both[i])]]

\* pd.concat([a, b], axis=0) of two frames of the same shape
concat(a, b) ==
    IF a.kind = "long" THEN LongFrame(a.long \o b.long)
    ELSE WideFrame(concat_wide(a.wide, b.wide))

\* df[df.DENOM_CIA.isin(universe)]
isin_companies(df, universe) ==
    IF df.kind = "long"
    THEN LongFrame(SelectSeq(df.long, LAMBDA r : r.DENOM_CIA \in Range(universe)))
    ELSE WideFrame([df.wide EXCEPT !.rows =
             SelectSeq(df.wide.rows, LAMBDA r : r.DENOM_CIA \in Range(universe))])

\* load_data appending to the frame the object already holds, instead of
\* replacing it.
load_data_appending(a, b, universe) ==
    IF df_dfp.kind = "long" /\ a.kind = "long"
    THEN isin_companies(concat(concat(df_dfp, a), b), universe)
    ELSE isin_companies(concat(a, b), universe)

load_data(a, b, universe) == isin_companies(concat(a, b), universe)

LiquidityAccounts == {"1.01.01", "2.01", "1.01", "1.01.04", "1.01.07", "1.02", "2.02"}
DebtAccounts == {"1", "2.01", "2.02", "2.01.04", "2.02.01", "2.03", "3.05"}
EfficiencyAccounts == {"3.01", "3.03", "3.05", "3.11"}
ProfitabilityAccounts == {"1", "2", "2.03", "3.05", "3.08", "3.11"}

\* self._df_dfp[self._df_dfp.CD_CONTA.isin(accounts) &
\*              (self._df_dfp.ORDEM_EXERC == 'ÚLTIMO')]: the attribute access
\* raises AttributeError on None and on a frame without these columns.
select_accounts(df, accounts) ==
    SelectSeq(df.long, LAMBDA r : r.CD_CONTA \in accounts /\ r.ORDEM_EXERC = ULTIMO)

Hundred == Float(100)

liquidez_imediata(x) ==
    FDiv(x["Caixa e Equivalentes de Caixa"], x["Passivo Circulante"])
liquidez_seca(x) ==
    FDiv(FSub(FSub(x["Ativo Circulante"], x["Estoques"]), x["Despesas Antecipadas"]),
         x["Passivo Circulante"])
liquidez_corrente(x) == FDiv(x["Ativo Circulante"], x["Passivo Circulante"])
liquidez_geral(x) ==
    FDiv(FAdd(x["Ativo Circulante"], x["Ativo Não Circulante"]),
         FAdd(x["Passivo Circulante"], x["Passivo Não Circulante"]))

LiquidityColumns ==
    <<"liquidez_imediata", "liquidez_seca", "liquidez_corrente", "liquidez_geral">>

LiquidityNeeds ==
    {"Caixa e Equivalentes de Caixa", "Passivo Circulante", "Ativo Circulante",
     "Estoques", "Despesas Antecipadas", "Ativo Não Circulante",
     "Passivo Não Circulante"}

LiquidityRatio(x, n) ==
    CASE n = "liquidez_imediata" -> liquidez_imediata(x)
      [] n = "liquidez_seca" -> liquidez_seca(x)
      [] n = "liquidez_corrente" -> liquidez_corrente(x)
      [] n = "liquidez_geral" -> liquidez_geral(x)

divida_pl(x) == FDiv(FAdd(x["2.01.04"], x["2.02.01"]), x["2.03"])
divida_ativos(x) == FDiv(FAdd(x["2.01.04"], x["2.02.01"]), x["1"])
divida_ebit(x) == FDiv(FAdd(x["2.01.04"], x["2.02.01"]), x["3.05"])
pl_ativos(x) == FDiv(x["2.03"], x["1"])
passivos_ativos(x) == FDiv(FAdd(x["2.01"], x["2.02"]), x["1"])

DebtColumns ==
    <<"divida_pl", "divida_ativos", "divida_ebit", "pl_ativos", "passivos_ativos">>

DebtNeeds == {"2.01.04", "2.02.01", "2.03", "1", "3.05", "2.01", "2.02"}

DebtRatio(x, n) ==
    CASE n = "divida_pl" -> divida_pl(x)
      [] n = "divida_ativos" -> divida_ativos(x)
      [] n = "divida_ebit" -> divida_ebit(x)
      [] n = "pl_ativos" -> pl_ativos(x)
      [] n = "passivos_ativos" -> passivos_ativos(x)

\* The gross margin without the scaling by 100.
margem_bruta_unscaled(x) == FDiv(x["3.03"], x["3.01"])

margem_bruta(x) == FMul(FDiv(x["3.03"], x["3.01"]), Hundred)
margem_liquida(x) == FMul(FDiv(x["3.11"], x["3.01"]), Hundred)
margem_ebit(x) == FMul(FDiv(x["3.05"], x["3.01"]), Hundred)

EfficiencyColumns == <<"margem_bruta", "margem_liquida", "margem_ebit">>

EfficiencyNeeds == {"3.03", "3.01", "3.11", "3.05"}

EfficiencyRatio(x, n) ==
    CASE n = "margem_bruta" -> margem_bruta(x)
      [] n = "margem_liquida" -> margem_liquida(x)
      [] n = "margem_ebit" -> margem_ebit(x)

roic(x) == FMul(FDiv(FSub(x["3.05"], x["3.08"]), x["2"]), Hundred)
roe(x) == FMul(FDiv(x["3.11"], x["2.03"]), Hundred)
roa(x) == FMul(FDiv(x["3.11"], x["1"]), Hundred)

ProfitabilityColumns == <<"roic", "roe", "roa">>

ProfitabilityNeeds == {"3.05", "3.08", "2", "3.11", "2.03", "1"}

ProfitabilityRatio(x, n) ==
    CASE n = "roic" -> roic(x)
      [] n = "roe" -> roe(x)
      [] n = "roa" -> roa(x)

\* The lambda that .assign gives the ratio column n of a family.
RatioOf(family, x, n) ==
    CASE family = "liquidity" -> LiquidityRatio(x, n)
      [] family = "debt" -> DebtRatio(x, n)
      [] family = "efficiency" -> EfficiencyRatio(x, n)
      [] family = "profitability" -> ProfitabilityRatio(x, n)

\* .assign(<ratios>)[['DT_REFER', 'DENOM_CIA', <ratios>]] on a pivoted
\* table: KeyError when a lambda reads a column the table does not have.
ratio_table(t, needs, names, family) ==
    IF ~Returned(t) THEN t
    ELSE IF ~HasColumns(t, needs) THEN Raised("KeyError")
    ELSE [err |-> "",
          cols |-> KeyColumns \o names,
          rows |-> [i \in 1..Len(t.rows) |->
                      [DT_REFER |-> t.rows[i].DT_REFER,
                       DENOM_CIA |-> t.rows[i].DENOM_CIA,
                       cells |-> [n \in Range(names) |->
                                     RatioOf(family, t.rows[i].cells, n)]]]]

calculate_liquidity(df) ==
    IF ~({"CD_CONTA", "ORDEM_EXERC"} \subseteq Columns(df)) THEN Raised("AttributeError")
    ELSE ratio_table(pivot(select_accounts(df, LiquidityAccounts), "DS_CONTA"),
                     LiquidityNeeds, LiquidityColumns, "liquidity")

calculate_debt(df) ==
    IF ~({"CD_CONTA", "ORDEM_EXERC"} \subseteq Columns(df)) THEN Raised("AttributeError")
    ELSE ratio_table(pivot(select_accounts(df, DebtAccounts), "CD_CONTA"),
                     DebtNeeds, DebtColumns, "debt")

calculate_efficiency(df) ==
    IF ~({"CD_CONTA", "ORDEM_EXERC"} \subseteq Columns(df)) THEN Raised("AttributeError")
    ELSE ratio_table(pivot(select_accounts(df, EfficiencyAccounts), "CD_CONTA"),
                     EfficiencyNeeds, EfficiencyColumns, "efficiency")

calculate_profitability(df) ==
    IF ~({"CD_CONTA", "ORDEM_EXERC"} \subseteq Columns(df)) THEN Raised("AttributeError")
    ELSE ratio_table(pivot(select_accounts(df, ProfitabilityAccounts), "CD_CONTA"),
                     ProfitabilityNeeds, ProfitabilityColumns, "profitability")

(***************************************************************************)
(* Direct use of a FinancialIndicators object: load_data on long-format    *)
(* frames (the input the four calculations read: CD_CONTA, DS_CONTA,       *)
(* VL_CONTA, ORDEM_EXERC), then one calculation.  The input is one         *)
(* company's accounts of one ratio family for one period, each account     *)
(* absent or valued 0..MaxMult, followed by up to MaxExtra other rows; or  *)
(* the two rows of the documented round-trip scenario.                     *)
(***************************************************************************)
LiquidityCatalog ==
    <<Account("1.01.01", "Caixa e Equivalentes de Caixa"),
      Account("2.01", "Passivo Circulante"),
      Account("1.01", "Ativo Circulante"),
      Account("1.01.04", "Estoques"),
      Account("1.01.07", "Despesas Antecipadas"),
      Account("1.02", "Ativo Não Circulante"),
      Account("2.02", "Passivo Não Circulante")>>

DebtCatalog ==
    <<Account("1", "Ativo Total"),
      Account("2.01", "Passivo Circulante"),
      Account("2.02", "Passivo Não Circulante"),
      Account("2.01.04", "Empréstimos e Financiamentos"),
      Account("2.02.01", "Empréstimos e Financiamentos"),
      Account("2.03", "Patrimônio Líquido Consolidado"),
      Account("3.05", "Resultado Antes do Resultado Financeiro e dos Tributos")>>

EfficiencyCatalog ==
    <<Account("3.01", "Receita de Venda de Bens e/ou Serviços"),
      Account("3.03", "Resultado Bruto"),
      Account("3.05", "Resultado Antes do Resultado Financeiro e dos Tributos"),
      Account("3.11", "Lucro/Prejuízo Consolidado do Período")>>

ProfitabilityCatalog ==
    <<Account("1", "Ativo Total"),
      Account("2", "Passivo Total"),
      Account("2.03", "Patrimônio Líquido Consolidado"),
      Account("3.05", "Resultado Antes do Resultado Financeiro e dos Tributos"),
      Account("3.08", "Imposto de Renda e Contribuição Social sobre o Lucro"),
      Account("3.11", "Lucro/Prejuízo Consolidado do Período")>>

Catalogs == {LiquidityCatalog, DebtCatalog, EfficiencyCatalog, ProfitabilityCatalog}

Filing(dt, cia, a, v, o) ==
    [DT_REFER |-> dt, DENOM_CIA |-> cia, CD_CONTA |-> a.CD_CONTA,
     DS_CONTA |-> a.DS_CONTA, VL_CONTA |-> v, ORDEM_EXERC |-> o]

Absent == -1

\* The final rows of ACME S.A. for 2023-12-31: account cat[i] with value v[i].
RECURSIVE StatementOf(_, _, _)
StatementOf(cat, v, i) ==
    IF i > Len(cat) THEN <<>>
    ELSE (IF v[i] = Absent THEN <<>>
          ELSE <<Filing("2023-12-31", "ACME S.A.", cat[i], v[i], ULTIMO)>>)
         \o StatementOf(cat, v, i + 1)

AccountValues(cat) ==
    {w \in [1..Len(cat) -> {Absent} \cup (0..MaxMult)] :
        Cardinality({i \in 1..Len(cat) : w[i] = Absent}) <= MaxAbsent}

\* Other rows a frame may hold: another company's, a non-final one, a second
\* final one for the same account, another period's, another account's.
ExtraRows(cat) ==
    {Filing("2023-12-31", "BANCO XYZ S.A.", cat[1], 1, ULTIMO),
     Filing("2023-12-31", "ACME S.A.", cat[1], 1, PENULTIMO),
     Filing("2023-12-31", "ACME S.A.", cat[2], 1, ULTIMO),
     Filing("2022-12-31", "ACME S.A.", cat[2], 0, ULTIMO),
     Filing("2023-12-31", "ACME S.A.", Account("9.99", "Outras Contas"), 1, ULTIMO)}

RoundTripRows ==
    <<Filing("2023-12-31", "ACME S.A.", Account("1.01", "Ativo Circulante"), 100, ULTIMO),
      Filing("2023-12-31", "ACME S.A.", Account("2.01", "Passivo Circulante"), 50, ULTIMO)>>

IndicatorUniverses == {<<"ACME S.A.">>, <<"ACME S.A.", "BANCO XYZ S.A.">>}

\* Income-statement accounts are the codes 3.x; the others are balance-sheet
\* accounts.
IncomeCodes == {"3.01", "3.02", "3.03", "3.05", "3.08", "3.09", "3.11"}

CalculateOps ==
    {"calculate_liquidity", "calculate_debt", "calculate_efficiency",
     "calculate_profitability"}

InitIndicators == InitProcessor

\* indicators.load_data(bp, dre, companies) on the rows of frame, its
\* balance-sheet rows as bp and its income-statement rows as dre
Load(frame, universe) ==
    LET a == SelectSeq(frame, LAMBDA r : r.CD_CONTA \notin IncomeCodes)
        b == SelectSeq(frame, LAMBDA r : r.CD_CONTA \in IncomeCodes)
    IN /\ ind_companies' = universe
       /\ df_dfp' = load_data(LongFrame(a), LongFrame(b), universe)
       /\ pc' = "loaded"
       /\ UNCHANGED others
       /\ UNCHANGED <<registry, info, raw, companies, bp, dre, dfc, processed, ret>>

LoadData ==
    /\ pc = "new"
    /\ \E cat \in Catalogs, universe \in IndicatorUniverses :
        \E v \in AccountValues(cat), ex \in BoundedSeq(ExtraRows(cat), MaxExtra) :
            Load(StatementOf(cat, v, 1) \o ex, universe)

LoadRoundTrip ==
    /\ pc = "new"
    /\ Load(RoundTripRows, <<"ACME S.A.">>)

CalculateLiquidity ==
    /\ Callable
    /\ Call("calculate_liquidity", <<>>, calculate_liquidity(df_dfp))

CalculateDebt ==
    /\ Callable
    /\ Call("calculate_debt", <<>>, calculate_debt(df_dfp))

CalculateEfficiency ==
    /\ Callable
    /\ Call("calculate_efficiency", <<>>, calculate_efficiency(df_dfp))

CalculateProfitability ==
    /\ Callable
    /\ Call("calculate_profitability", <<>>, calculate_profitability(df_dfp))

NextIndicators ==
    \/ LoadData
    \/ LoadRoundTrip
    \/ CalculateLiquidity
    \/ CalculateDebt
    \/ CalculateEfficiency
    \/ CalculateProfitability

SpecIndicators == InitIndicators /\ [][NextIndicators]_vars

(***************************************************************************)
(* CVMDataCollector.download_company_info: the company universe filter.    *)
(* A registry row is [DENOM_SOCIAL, SIT, TP_MERC, SETOR_ATIV].             *)
(***************************************************************************)
ExcludedSectors == {"Bancos", "Intermediação Financeira", "Seguradoras e Corretoras"}

\* The mask without the test of the listing venue.
CompanyMask_AnyVenue(r) ==
    /\ r.SIT = "ATIVO"
    /\ r.SETOR_ATIV \notin ExcludedSectors

\* The mask without the exclusion of the financial sectors.
CompanyMask_AnySector(r) ==
    /\ r.SIT = "ATIVO"
    /\ r.TP_MERC = "BOLSA"

\* the row mask of download_company_info
CompanyMask(r) ==
    /\ r.SIT = "ATIVO"
    /\ r.TP_MERC = "BOLSA"
    /\ r.SETOR_ATIV \notin ExcludedSectors

NameRank(r) == Rank(SortedNames, r.DENOM_SOCIAL)

\* The filtered rows left in feed order.
sort_values_skipped(rows) == rows

\* DataFrame.sort_values('DENOM_SOCIAL'): ascending by name; rows of equal
\* name keep their order (numpy sorts short arrays by insertion).
RECURSIVE sort_values(_)
sort_values(rows) ==
    IF rows = <<>> THEN <<>>
    ELSE LET rest == sort_values(SubSeq(rows, 1, Len(rows) - 1))
             last == rows[Len(rows)]
             k == Cardinality({i \in 1..Len(rest) : NameRank(rest[i]) <= NameRank(last)})
         IN SubSeq(rest, 1, k) \o <<last>> \o SubSeq(rest, k + 1, Len(rest))

download_company_info(feed) == sort_values(SelectSeq(feed, CompanyMask))

Profiles ==
    {[SIT |-> "ATIVO", TP_MERC |-> "BOLSA", SETOR_ATIV |-> "Energia Elétrica"],
     [SIT |-> "CANCELADA", TP_MERC |-> "BOLSA", SETOR_ATIV |-> "Energia Elétrica"],
     [SIT |-> "ATIVO", TP_MERC |-> "BALCÃO ORGANIZADO", SETOR_ATIV |-> "Energia Elétrica"],
     [SIT |-> "ATIVO", TP_MERC |-> "BOLSA", SETOR_ATIV |-> "Bancos"],
     [SIT |-> "ATIVO", TP_MERC |-> "BOLSA", SETOR_ATIV |-> "Intermediação Financeira"],
     [SIT |-> "ATIVO", TP_MERC |-> "BOLSA", SETOR_ATIV |-> "Seguradoras e Corretoras"]}

RegistryRows ==
    {[DENOM_SOCIAL |-> c, SIT |-> p.SIT, TP_MERC |-> p.TP_MERC,
      SETOR_ATIV |-> p.SETOR_ATIV] : c \in Range(SortedNames), p \in Profiles}

(***************************************************************************)
(* The commands of main.py: collect, then process.  data/raw holds         *)
(* companies.csv (written by collect) and the range-named statement files  *)
(* process reads; these are present or not when the commands start, and    *)
(* hold, for each company, a full set of final accounts, one without       *)
(* equity, or nothing.                                                     *)
(***************************************************************************)
Filed(cia, kind, accounts) ==
    IF kind = "none" THEN <<>>
    ELSE [i \in 1..Len(accounts) |->
             Filing("2023-12-31", cia, accounts[i], i, ULTIMO)]

BPAFiling(cia, kind) == Filed(cia, kind, <<Account("1", "Ativo Total")>>)

BPPFiling(cia, kind) ==
    Filed(cia, kind,
          IF kind = "full"
          THEN <<Account("2.03", "Patrimônio Líquido Consolidado"),
                 Account("2", "Passivo Total")>>
          ELSE <<Account("2", "Passivo Total")>>)

DREFiling(cia, kind) ==
    Filed(cia, kind,
          <<Account("3.01", "Receita de Venda de Bens e/ou Serviços"),
            Account("3.11", "Lucro/Prejuízo Consolidado do Período")>>)

DFCFiling(cia, kind) ==
    Filed(cia, kind, <<Account("6.01", "Caixa Líquido Atividades Operacionais")>>)

FilingKinds == {"none", "full", "no equity"}

StatementFiles(ka, kb) ==
    [companies_csv |-> <<>>, present |-> TRUE,
     BPA_con |-> BPAFiling("ACME S.A.", ka) \o BPAFiling("BANCO XYZ S.A.", kb),
     BPP_con |-> BPPFiling("ACME S.A.", ka) \o BPPFiling("BANCO XYZ S.A.", kb),
     DRE_con |-> DREFiling("ACME S.A.", ka) \o DREFiling("BANCO XYZ S.A.", kb),
     DFC_MI_con |-> DFCFiling("ACME S.A.", ka) \o DFCFiling("BANCO XYZ S.A.", kb)]

Init ==
    /\ IdleOthers
    /\ registry \in BoundedSeq(RegistryRows, MaxReg)
    /\ info = <<>>
    /\ raw \in {NoRaw} \cup {StatementFiles(ka, kb) : ka, kb \in FilingKinds}
    /\ companies = <<>>
    /\ bp = NoTable /\ dre = NoTable /\ dfc = NoTable
    /\ processed = <<>>
    /\ ind_companies = <<>> /\ df_dfp = NoFrame
    /\ ret = NoCall
    /\ pc = "collect"

\* run: companies = self.download_company_info()
RunDownloadCompanyInfo ==
    /\ pc = "collect"
    /\ info' = download_company_info(registry)
    /\ pc' = "collect csv"
    /\ UNCHANGED others
    /\ UNCHANGED <<registry, raw, companies, bp, dre, dfc, processed,
                   ind_companies, df_dfp, ret>>

\* run: companies['DENOM_SOCIAL'].to_csv(output_dir / 'companies.csv', ...)
RunWriteCompanies ==
    /\ pc = "collect csv"
    /\ raw' = [raw EXCEPT !.companies_csv =
                  to_csv("DENOM_SOCIAL", [i \in 1..Len(info) |-> info[i].DENOM_SOCIAL])]
    /\ pc' = "collect filings"
    /\ UNCHANGED others
    /\ UNCHANGED <<registry, info, companies, bp, dre, dfc, processed,
                   ind_companies, df_dfp, ret>>

\* run: download_dfp, extract_files and concatenate_statements work on the
\* per-year archives and files; the concatenated tables are returned to
\* cmd_collect, which drops them.  Neither companies.csv nor a range-named
\* statement file is written.
RunFilings ==
    /\ pc = "collect filings"
    /\ pc' = "process"
    /\ UNCHANGED others
    /\ UNCHANGED <<registry, info, raw, companies, bp, dre, dfc, processed,
                   ind_companies, df_dfp, ret>>

\* An exception leaves the command: nothing later runs.
Fail(op, err) ==
    /\ pc' = "failed"
    /\ ret' = [op |-> op, arg |-> <<>>, val |-> Raised(err)]

\* cmd_process: companies = processor.load_companies()
CmdProcessLoadCompanies ==
    /\ pc = "process"
    /\ IF raw.companies_csv = <<>>
       THEN Fail("load_companies", "FileNotFoundError") /\ UNCHANGED companies
       ELSE /\ companies' = load_companies(raw.companies_csv)
            /\ pc' = "balance sheet"
            /\ UNCHANGED ret
    /\ UNCHANGED others
    /\ UNCHANGED <<registry, info, raw, bp, dre, dfc, processed,
                   ind_companies, df_dfp>>

\* One reshaper call of cmd_process: _load_statement raises when the file is
\* not there; an exception of the reshaper ends the command.
Reshaped(op, t, next) ==
    IF ~raw.present THEN Fail(op, "FileNotFoundError")
    ELSE IF ~Returned(t) THEN Fail(op, t.err)
    ELSE pc' = next /\ UNCHANGED ret

\* cmd_process: bp = processor.process_balance_sheet(start_year, end_year)
CmdProcessBalanceSheet ==
    /\ pc = "balance sheet"
    /\ LET t == process_balance_sheet(raw.BPA_con, raw.BPP_con, companies)
       IN /\ bp' = IF raw.present THEN t ELSE Raised("FileNotFoundError")
          /\ Reshaped("process_balance_sheet", t, "income statement")
    /\ UNCHANGED others
    /\ UNCHANGED <<registry, info, raw, companies, dre, dfc, processed,
                   ind_companies, df_dfp>>

\* cmd_process: dre = processor.process_income_statement(start_year, end_year)
CmdProcessIncomeStatement ==
    /\ pc = "income statement"
    /\ LET t == process_income_statement(raw.DRE_con, companies)
       IN /\ dre' = IF raw.present THEN t ELSE Raised("FileNotFoundError")
          /\ Reshaped("process_income_statement", t, "cash flow")
    /\ UNCHANGED others
    /\ UNCHANGED <<registry, info, raw, companies, bp, dfc, processed,
                   ind_companies, df_dfp>>

\* cmd_process: dfc = processor.process_cash_flow(start_year, end_year)
CmdProcessCashFlow ==
    /\ pc = "cash flow"
    /\ LET t == process_cash_flow(raw.DFC_MI_con, companies)
       IN /\ dfc' = IF raw.present THEN t ELSE Raised("FileNotFoundError")
          /\ Reshaped("process_cash_flow", t, "save")
    /\ UNCHANGED others
    /\ UNCHANGED <<registry, info, raw, companies, bp, dre, processed,
                   ind_companies, df_dfp>>

File(name, t) == [name |-> name, data |-> t]

\* cmd_process: the three processor.save_data calls
CmdProcessSave ==
    /\ pc = "save"
    /\ processed' = processed \o <<File("balance_sheet.csv", bp),
                                   File("income_statement.csv", dre),
                                   File("cash_flow.csv", dfc)>>
    /\ pc' = "load data"
    /\ UNCHANGED others
    /\ UNCHANGED <<registry, info, raw, companies, bp, dre, dfc,
                   ind_companies, df_dfp, ret>>

\* cmd_process: indicators.load_data(bp, dre, companies)
CmdProcessLoadData ==
    /\ pc = "load data"
    /\ ind_companies' = companies
    /\ df_dfp' = load_data(WideFrame(bp), WideFrame(dre), companies)
    /\ pc' = "indicators"
    /\ UNCHANGED others
    /\ UNCHANGED <<registry, info, raw, companies, bp, dre, dfc, processed, ret>>

\* The indicator lines made all-or-nothing: when a calculation raises, the
\* files the command wrote are removed.
CmdProcessIndicators_RolledBack ==
    /\ pc = "indicators"
    /\ LET steps == <<[op |-> "calculate_liquidity", name |-> "liquidity.csv",
                       val |-> calculate_liquidity(df_dfp)],
                      [op |-> "calculate_debt", name |-> "debt.csv",
                       val |-> calculate_debt(df_dfp)],
                      [op |-> "calculate_efficiency", name |-> "efficiency.csv",
                       val |-> calculate_efficiency(df_dfp)],
                      [op |-> "calculate_profitability", name |-> "profitability.csv",
                       val |-> calculate_profitability(df_dfp)]>>
           bad == {i \in 1..Len(steps) : ~Returned(steps[i].val)}
           stop == IF bad = {} THEN Len(steps) + 1
                   ELSE CHOOSE i \in bad : \A j \in bad : i <= j
       IN IF bad = {}
          THEN /\ processed' = processed \o
                       [i \in 1..Len(steps) |-> [name |-> steps[i].name, data |-> steps[i].val]]
               /\ pc' = "done" /\ UNCHANGED ret
          ELSE /\ processed' = <<>>
               /\ pc' = "failed"
               /\ ret' = [op |-> steps[stop].op, arg |-> <<>>,
                          val |-> Raised(steps[stop].val.err)]
    /\ UNCHANGED others
    /\ UNCHANGED <<registry, info, raw, companies, bp, dre, dfc,
                   ind_companies, df_dfp>>

\* cmd_process: the four save_indicator(calculate_...(), ...) lines, in
\* order; the first calculation that raises ends the command, the files of
\* the calculations before it written.
CmdProcessIndicators ==
    /\ pc = "indicators"
    /\ LET steps == <<[op |-> "calculate_liquidity", name |-> "liquidity.csv",
                       val |-> calculate_liquidity(df_dfp)],
                      [op |-> "calculate_debt", name |-> "debt.csv",
                       val |-> calculate_debt(df_dfp)],
                      [op |-> "calculate_efficiency", name |-> "efficiency.csv",
                       val |-> calculate_efficiency(df_dfp)],
                      [op |-> "calculate_profitability", name |-> "profitability.csv",
                       val |-> calculate_profitability(df_dfp)]>>
           bad == {i \in 1..Len(steps) : ~Returned(steps[i].val)}
           stop == IF bad = {} THEN Len(steps) + 1
                   ELSE CHOOSE i \in bad : \A j \in bad : i <= j
       IN /\ processed' = processed \o
                 [i \in 1..(stop - 1) |-> File(steps[i].name, steps[i].val)]
          /\ IF bad = {} THEN pc' = "done" /\ UNCHANGED ret
             ELSE Fail(steps[stop].op, steps[stop].val.err)
    /\ UNCHANGED others
    /\ UNCHANGED <<registry, info, raw, companies, bp, dre, dfc,
                   ind_companies, df_dfp>>

Next ==
    \/ RunDownloadCompanyInfo
    \/ RunWriteCompanies
    \/ RunFilings
    \/ CmdProcessLoadCompanies
    \/ CmdProcessBalanceSheet
    \/ CmdProcessIncomeStatement
    \/ CmdProcessCashFlow
    \/ CmdProcessSave
    \/ CmdProcessLoadData
    \/ CmdProcessIndicators

Spec == Init /\ [][Next]_vars

(***************************************************************************)
(* CVMDataCollector: the yearly archives.  A CSV file is [state, rows]:    *)
(* absent, malformed (pd.read_csv raises on it) or ok with its data rows.  *)
(* An archive is [state, files]: none (on the server: the download raises; *)
(* on disk: no file), corrupt (ZipFile raises on it) or good.              *)
(***************************************************************************)
FirstYear == 2016
LastYear == FirstYear + MaxYears - 1
Years == FirstYear..LastYear

StatementTypes == <<"BPA_con", "BPP_con", "DRE_con", "DFC_MI_con">>
Kinds == {StatementTypes[i] : i \in 1..MaxKinds}

NoFile == [state |-> "absent", rows |-> <<>>]
Malformed == [state |-> "malformed", rows |-> <<>>]
CsvFile(rows) == [state |-> "ok", rows |-> rows]

FileRows(kind, year, n) == [i \in 1..n |-> [kind |-> kind, year |-> year, line |-> i]]

Files(kind, year) ==
    {NoFile, Malformed} \cup {CsvFile(FileRows(kind, year, n)) : n \in 0..MaxLines}

NoFiles == [k \in Kinds |-> NoFile]
NoArchive == [state |-> "none", files |-> NoFiles]
CorruptArchive == [state |-> "corrupt", files |-> NoFiles]

Archives(year) ==
    {NoArchive, CorruptArchive}
        \cup {[state |-> "good", files |-> f] :
                 f \in {g \in [Kinds -> UNION {Files(k, year) : k \in Kinds}] :
                           \A k \in Kinds : g[k] \in Files(k, year)}}

\* download_dfp without the try/except: the first failed download ends the
\* loop.
RECURSIVE download_dfp_uncaught(_, _, _)
download_dfp_uncaught(year, end_year, st) ==
    IF year > end_year THEN st
    ELSE LET got == server.dfp[year]
             ok == got.state # "none"
             next == [zips |-> [st.zips EXCEPT ![year] = IF ok THEN got ELSE NoArchive],
                      attempts |-> Append(st.attempts, year),
                      downloaded |-> IF ok THEN Append(st.downloaded, year)
                                     ELSE st.downloaded]
         IN IF ok THEN download_dfp_uncaught(year + 1, end_year, next) ELSE next

\* download_dfp: for each year in order, the stale archive is removed, the
\* download is attempted, and a failure is printed and passed over.
RECURSIVE download_dfp(_, _, _)
download_dfp(year, end_year, st) ==
    IF year > end_year THEN st
    ELSE LET got == server.dfp[year]
             ok == got.state # "none"
         IN download_dfp(year + 1, end_year,
                [zips |-> [st.zips EXCEPT ![year] = IF ok THEN got ELSE NoArchive],
                 attempts |-> Append(st.attempts, year),
                 downloaded |-> IF ok THEN Append(st.downloaded, year)
                                ELSE st.downloaded])

\* extract_files: for each year in order, an existing archive is opened and
\* extracted over the output directory; ZipFile's error is not caught.
RECURSIVE extract_files(_, _, _)
extract_files(year, end_year, st) ==
    IF year > end_year \/ st.err # "" THEN st
    ELSE LET zip == disk.zips[year]
         IN extract_files(year + 1, end_year,
                CASE zip.state = "none" -> st
                  [] zip.state = "corrupt" -> [st EXCEPT !.err = "BadZipFile"]
                  [] OTHER ->
                       [st EXCEPT !.csv =
                           [k \in Kinds |->
                               IF zip.files[k].state = "absent" THEN st.csv[k]
                               ELSE [st.csv[k] EXCEPT ![year] = zip.files[k]]]])

\* The frames list read without the filepath.exists() test.
RECURSIVE read_frames_unguarded(_, _, _, _)
read_frames_unguarded(kind, year, end_year, st) ==
    IF year > end_year \/ st.err # "" THEN st
    ELSE LET file == disk.csv[kind][year]
         IN read_frames_unguarded(kind, year + 1, end_year,
                CASE file.state = "absent" -> [st EXCEPT !.err = "FileNotFoundError"]
                  [] file.state = "malformed" -> [st EXCEPT !.err = "ParserError"]
                  [] OTHER -> [st EXCEPT !.frames = Append(@, file.rows)])

\* The frames list of one statement type: the years' files that exist, read
\* in order; pd.read_csv's error is not caught.
RECURSIVE read_frames(_, _, _, _)
read_frames(kind, year, end_year, st) ==
    IF year > end_year \/ st.err # "" THEN st
    ELSE LET file == disk.csv[kind][year]
         IN read_frames(kind, year + 1, end_year,
                CASE file.state = "absent" -> st
                  [] file.state = "malformed" -> [st EXCEPT !.err = "ParserError"]
                  [] OTHER -> [st EXCEPT !.frames = Append(@, file.rows)])

RECURSIVE Flatten(_)
Flatten(frames) ==
    IF frames = <<>> THEN <<>> ELSE Head(frames) \o Flatten(Tail(frames))

\* concatenate_statements without the "if frames" test: a table for every
\* statement type.
RECURSIVE concatenate_statements_every_kind(_, _, _, _)
concatenate_statements_every_kind(start_year, end_year, statement_types, st) ==
    IF statement_types = <<>> \/ st.err # "" THEN st
    ELSE LET kind == Head(statement_types)
             read == read_frames(kind, start_year, end_year, [err |-> "", frames |-> <<>>])
         IN concatenate_statements_every_kind(start_year, end_year, Tail(statement_types),
                IF read.err # "" THEN [st EXCEPT !.err = read.err]
                ELSE [st EXCEPT !.keys = IF kind \in Range(@) THEN @ ELSE Append(@, kind),
                                !.tables = [@ EXCEPT ![kind] = Flatten(read.frames)]])

\* concatenate_statements: result[stmt_type] is set only when frames is not
\* empty.  The result is [err, keys, tables]: keys in insertion order.
RECURSIVE concatenate_statements(_, _, _, _)
concatenate_statements(start_year, end_year, statement_types, st) ==
    IF statement_types = <<>> \/ st.err # "" THEN st
    ELSE LET kind == Head(statement_types)
             read == read_frames(kind, start_year, end_year, [err |-> "", frames |-> <<>>])
         IN concatenate_statements(start_year, end_year, Tail(statement_types),
                IF read.err # "" THEN [st EXCEPT !.err = read.err]
                ELSE IF read.frames = <<>> THEN st
                ELSE [st EXCEPT !.keys = IF kind \in Range(@) THEN @ ELSE Append(@, kind),
                                !.tables = [@ EXCEPT ![kind] = Flatten(read.frames)]])

NoData == [err |-> "", keys |-> <<>>, tables |-> [k \in Kinds |-> <<>>]]

(***************************************************************************)
(* A collection run against a server that may fail, and later direct calls *)
(* of concatenate_statements on the files the run left.                    *)
(***************************************************************************)
StaleArchive == [state |-> "good", files |-> NoFiles]

SampleRegistry ==
    <<[DENOM_SOCIAL |-> "BANCO XYZ S.A.", SIT |-> "ATIVO", TP_MERC |-> "BOLSA",
       SETOR_ATIV |-> "Bancos"],
      [DENOM_SOCIAL |-> "ACME S.A.", SIT |-> "ATIVO", TP_MERC |-> "BOLSA",
       SETOR_ATIV |-> "Energia Elétrica"]>>

\* What the CVM server answers: the registry feed, and per year an archive.
Servers(cad) ==
    {[cad |-> cad, dfp |-> d] :
        d \in {g \in [Years -> UNION {Archives(y) : y \in Years}] :
                  \A y \in Years : g[y] \in Archives(y)}}

EmptyDisk ==
    [cad |-> FALSE,
     companies_csv |-> <<>>,
     zips |-> [y \in Years |-> NoArchive],
     csv |-> [k \in Kinds |-> [y \in Years |-> NoFile]]]

\* The statement_types a caller may pass: lists of kinds without repetition.
StatementLists ==
    {l \in BoundedSeq(Kinds, MaxKinds) : \A i, j \in 1..Len(l) : i # j => l[i] # l[j]}

NoConcat ==
    [start_year |-> FirstYear, end_year |-> FirstYear, statement_types |-> <<>>,
     called |-> FALSE, result |-> NoData]

InitCollector ==
    /\ registry = SampleRegistry
    /\ info = <<>> /\ raw = NoRaw /\ companies = <<>>
    /\ bp = NoTable /\ dre = NoTable /\ dfc = NoTable
    /\ processed = <<>>
    /\ ind_companies = <<>> /\ df_dfp = NoFrame
    /\ ret = NoCall
    /\ \E cad \in {"ok", "download error", "parse error"} : server \in Servers(cad)
    /\ \E stale \in SUBSET Years :
           disk = [EmptyDisk EXCEPT
                      !.zips = [y \in Years |-> IF y \in stale THEN StaleArchive
                                                ELSE NoArchive]]
    /\ attempts = <<>> /\ downloaded = <<>>
    /\ data = NoConcat
    /\ first = <<>> /\ cli = <<>>
    /\ pc = "run"

processor_vars ==
    <<registry, raw, companies, bp, dre, dfc, processed, ind_companies, df_dfp,
      first, cli, server>>

\* The first step of run with the fetch error caught: the run goes on with
\* an empty company table.
CollectDownloadCompanyInfo_Caught ==
    /\ pc = "run"
    /\ disk' = [disk EXCEPT !.cad = server.cad # "download error"]
    /\ info' = IF server.cad = "ok" THEN download_company_info(registry) ELSE <<>>
    /\ pc' = "write companies"
    /\ UNCHANGED <<ret, attempts, downloaded, data>>
    /\ UNCHANGED processor_vars

\* run: companies = self.download_company_info(); the error of wget.download
\* or pd.read_csv leaves run.
CollectDownloadCompanyInfo ==
    /\ pc = "run"
    /\ disk' = [disk EXCEPT !.cad = server.cad # "download error"]
    /\ IF server.cad = "ok"
       THEN /\ info' = download_company_info(registry)
            /\ pc' = "write companies"
            /\ UNCHANGED ret
       ELSE /\ ret' = [op |-> "download_company_info", arg |-> <<>>,
                       val |-> Raised(IF server.cad = "parse error"
                                      THEN "ParserError" ELSE "URLError")]
            /\ pc' = "failed"
            /\ UNCHANGED info
    /\ UNCHANGED <<attempts, downloaded, data>>
    /\ UNCHANGED processor_vars

\* run: companies['DENOM_SOCIAL'].to_csv(output_dir / 'companies.csv')
CollectWriteCompanies ==
    /\ pc = "write companies"
    /\ disk' = [disk EXCEPT !.companies_csv =
                   to_csv("DENOM_SOCIAL", [i \in 1..Len(info) |-> info[i].DENOM_SOCIAL])]
    /\ pc' = "download dfp"
    /\ UNCHANGED <<info, ret, attempts, downloaded, data>>
    /\ UNCHANGED processor_vars

\* run: self.download_dfp(start_year, end_year)
CollectDownloadDfp ==
    /\ pc = "download dfp"
    /\ LET st == download_dfp(FirstYear, LastYear,
                     [zips |-> disk.zips, attempts |-> <<>>, downloaded |-> <<>>])
       IN /\ disk' = [disk EXCEPT !.zips = st.zips]
          /\ attempts' = st.attempts
          /\ downloaded' = st.downloaded
    /\ pc' = "extract"
    /\ UNCHANGED <<info, ret, data>>
    /\ UNCHANGED processor_vars

\* run: self.extract_files(start_year, end_year)
CollectExtractFiles ==
    /\ pc = "extract"
    /\ LET st == extract_files(FirstYear, LastYear, [err |-> "", csv |-> disk.csv])
       IN /\ disk' = [disk EXCEPT !.csv = st.csv]
          /\ IF st.err = ""
             THEN pc' = "concatenate" /\ UNCHANGED ret
             ELSE /\ ret' = [op |-> "extract_files", arg |-> <<>>, val |-> Raised(st.err)]
                  /\ pc' = "failed"
    /\ UNCHANGED <<info, attempts, downloaded, data>>
    /\ UNCHANGED processor_vars

Concatenated(start_year, end_year, statement_types) ==
    [start_year |-> start_year, end_year |-> end_year,
     statement_types |-> statement_types, called |-> TRUE,
     result |-> concatenate_statements(start_year, end_year, statement_types, NoData)]

\* run: data = self.concatenate_statements(start_year, end_year, statements)
CollectConcatenateStatements ==
    /\ pc = "concatenate"
    /\ \E statements \in StatementLists :
           LET d == Concatenated(FirstYear, LastYear, statements)
           IN /\ data' = d
              /\ IF d.result.err = ""
                 THEN pc' = "done" /\ UNCHANGED ret
                 ELSE /\ ret' = [op |-> "concatenate_statements", arg |-> <<>>,
                                 val |-> Raised(d.result.err)]
                      /\ pc' = "failed"
    /\ UNCHANGED <<info, disk, attempts, downloaded>>
    /\ UNCHANGED processor_vars

\* A later call collector.concatenate_statements(start, end, types) on the
\* files the run left in data/raw.
ConcatenateStatements ==
    /\ pc \in {"done", "failed"}
    /\ \E s \in Years, e \in Years, types \in StatementLists :
           /\ s <= e
           /\ data' = Concatenated(s, e, types)
    /\ pc' = "returned"
    /\ UNCHANGED <<info, ret, disk, attempts, downloaded>>
    /\ UNCHANGED processor_vars

NextCollector ==
    \/ CollectDownloadCompanyInfo
    \/ CollectWriteCompanies
    \/ CollectDownloadDfp
    \/ CollectExtractFiles
    \/ CollectConcatenateStatements
    \/ ConcatenateStatements

SpecCollector == InitCollector /\ [][NextCollector]_vars

(***************************************************************************)
(* Repeated calls of download_company_info on one registry snapshot.       *)
(***************************************************************************)
InitRegistry ==
    /\ IdleOthers
    /\ registry \in BoundedSeq(RegistryRows, MaxReg)
    /\ info = <<>> /\ raw = NoRaw /\ companies = <<>>
    /\ bp = NoTable /\ dre = NoTable /\ dfc = NoTable
    /\ processed = <<>>
    /\ ind_companies = <<>> /\ df_dfp = NoFrame
    /\ ret = NoCall
    /\ pc = "new"

DownloadCompanyInfo ==
    /\ pc = "new"
    /\ info' = download_company_info(registry)
    /\ ret' = [op |-> "download_company_info", arg |-> <<>>, val |-> NoTable]
    /\ pc' = "called"
    /\ UNCHANGED others
    /\ UNCHANGED <<registry, raw, companies, bp, dre, dfc, processed,
                   ind_companies, df_dfp>>

\* The call made again; first keeps what the earlier call returned.
DownloadCompanyInfoAgain ==
    /\ pc = "called"
    /\ first' = info
    /\ info' = download_company_info(registry)
    /\ pc' = "called again"
    /\ UNCHANGED <<server, disk, attempts, downloaded, data, cli>>
    /\ UNCHANGED <<registry, raw, companies, bp, dre, dfc, processed,
                   ind_companies, df_dfp, ret>>

NextRegistry == DownloadCompanyInfo \/ DownloadCompanyInfoAgain

SpecRegistry == InitRegistry /\ [][NextRegistry]_vars

(***************************************************************************)
(* The reshape and ratio steps run twice by the same FinancialProcessor    *)
(* and FinancialIndicators objects on the same files: the statement files  *)
(* and companies.csv in raw, and the long frame in ret.arg that load_data  *)
(* is given.                                                               *)
(***************************************************************************)
RerunFrames ==
    {StatementOf(cat, [i \in 1..Len(cat) |-> m], 1) : cat \in Catalogs, m \in 0..MaxMult}

InitRerun ==
    /\ IdleOthers
    /\ registry = <<>> /\ info = <<>>
    /\ \E ka, kb \in FilingKinds, names \in CompanyLists :
           raw = [StatementFiles(ka, kb) EXCEPT
                     !.companies_csv = to_csv("DENOM_SOCIAL", names)]
    /\ companies = <<>>
    /\ bp = NoTable /\ dre = NoTable /\ dfc = NoTable
    /\ processed = <<>>
    /\ ind_companies = <<>> /\ df_dfp = NoFrame
    /\ \E frame \in RerunFrames : ret = [op |-> "load_data", arg |-> frame, val |-> NoTable]
    /\ pc = "new"

\* load_companies, the three reshapers, load_data and the four calculations,
\* their seven tables put in processed; first keeps the tables of the run
\* before.
Steps(next) ==
    LET universe == load_companies(raw.companies_csv)
        a == SelectSeq(ret.arg, LAMBDA r : r.CD_CONTA \notin IncomeCodes)
        b == SelectSeq(ret.arg, LAMBDA r : r.CD_CONTA \in IncomeCodes)
        frame == load_data(LongFrame(a), LongFrame(b), universe)
        t1 == process_balance_sheet(raw.BPA_con, raw.BPP_con, universe)
        t2 == process_income_statement(raw.DRE_con, universe)
        t3 == process_cash_flow(raw.DFC_MI_con, universe)
    IN /\ companies' = universe
       /\ bp' = t1 /\ dre' = t2 /\ dfc' = t3
       /\ ind_companies' = universe
       /\ df_dfp' = frame
       /\ first' = processed
       /\ processed' = <<File("balance_sheet.csv", t1),
                         File("income_statement.csv", t2),
                         File("cash_flow.csv", t3),
                         File("liquidity.csv", calculate_liquidity(frame)),
                         File("debt.csv", calculate_debt(frame)),
                         File("efficiency.csv", calculate_efficiency(frame)),
                         File("profitability.csv", calculate_profitability(frame))>>
       /\ pc' = next
       /\ UNCHANGED <<server, disk, attempts, downloaded, data, cli>>
       /\ UNCHANGED <<registry, info, raw, ret>>

RunSteps == pc = "new" /\ Steps("ran")

RunStepsAgain == pc = "ran" /\ Steps("ran again")

NextRerun == RunSteps \/ RunStepsAgain

SpecRerun == InitRerun /\ [][NextRerun]_vars

(***************************************************************************)
(* Properties of the commands.                                             *)
(***************************************************************************)
Count(seq, x) == Cardinality({i \in 1..Len(seq) : seq[i] = x})

\* The three conditions of the documented universe filter.
Eligible(r) ==
    /\ r.SIT = "ATIVO"
    /\ r.TP_MERC = "BOLSA"
    /\ r.SETOR_ATIV \notin
           {"Bancos", "Intermediação Financeira", "Seguradoras e Corretoras"}

\* C1: download_company_info returns exactly the registry rows that are
\* active, listed on the exchange and outside the excluded sectors: every
\* returned row satisfies the three conditions, every such registry row is
\* returned as often as the registry holds it, and no other row is returned.
C1_UniverseFilter ==
    pc # "collect" =>
        /\ \A i \in 1..Len(info) : Eligible(info[i])
        /\ Range(info) \subseteq Range(registry)
        /\ \A i \in 1..Len(registry) :
               IF Eligible(registry[i])
               THEN Count(info, registry[i]) = Count(registry, registry[i])
               ELSE Count(info, registry[i]) = 0

\* C1 witness: the filter returned a row and dropped a row.
C1_Witness ==
    /\ pc # "collect"
    /\ Len(info) >= 1
    /\ \E i \in 1..Len(registry) : ~Eligible(registry[i])

\* The tables process has produced: the reshaped ones and the saved ones.
ProducedTables ==
    {t \in {bp, dre, dfc} : Returned(t)}
        \cup {processed[i].data : i \in 1..Len(processed)}

\* C2 (as claimed): a company with a registry row of sector Bancos appears
\* in no reshaped or ratio table.
C2_BankNeverAppears ==
    \A i \in 1..Len(registry) :
        registry[i].SETOR_ATIV = "Bancos" =>
            \A t \in ProducedTables : registry[i].DENOM_SOCIAL \notin Names(t)

\* C2 (amended): a company name whose registry rows all have sector Bancos
\* appears in no reshaped or ratio table.
C2_BankNameNeverAppears ==
    \A i \in 1..Len(registry) :
        (\A j \in 1..Len(registry) :
             registry[j].DENOM_SOCIAL = registry[i].DENOM_SOCIAL
                 => registry[j].SETOR_ATIV = "Bancos")
        => \A t \in ProducedTables : registry[i].DENOM_SOCIAL \notin Names(t)

\* C2 witness: the balance sheet was reshaped into a table with rows while
\* the raw file held rows of a company registered as a bank only.
C2_Witness ==
    /\ Returned(bp)
    /\ bp.rows # <<>>
    /\ \E i \in 1..Len(registry) :
           /\ \A j \in 1..Len(registry) :
                  registry[j].DENOM_SOCIAL = registry[i].DENOM_SOCIAL
                      => registry[j].SETOR_ATIV = "Bancos"
           /\ \E k \in 1..Len(raw.BPP_con) :
                  raw.BPP_con[k].DENOM_CIA = registry[i].DENOM_SOCIAL

RatioFiles == {"liquidity.csv", "debt.csv", "efficiency.csv", "profitability.csv"}

\* C4 (as claimed): when the three reshapes succeed, process goes on to
\* compute the four ratio tables from the reshaped balance sheet and income
\* statement, none of the calculations raising.
C4_RatiosComputed ==
    (pc \in {"done", "failed"} /\ Returned(bp) /\ Returned(dre) /\ Returned(dfc)) =>
        /\ pc = "done"
        /\ \A f \in RatioFiles :
               \E i \in 1..Len(processed) :
                   processed[i].name = f /\ Returned(processed[i].data)

(***************************************************************************)
(* Properties of the reshapers, stated on a call [op, arg, val] and the    *)
(* company universe it ran with.                                           *)
(***************************************************************************)
AllowList(op) ==
    CASE op = "process_balance_sheet" -> BalanceSheetAccounts
      [] op = "process_income_statement" -> IncomeStatementAccounts
      [] op = "process_cash_flow" -> CashFlowAccounts
      [] OTHER -> {}

\* The three conditions of the documented filter.
DocumentedFilter(op, r) ==
    /\ r.DS_CONTA \in AllowList(op)
    /\ r.DENOM_CIA \in Range(companies)
    /\ r.ORDEM_EXERC = ULTIMO

\* The documented filter, with the account-code test the income statement adds.
CodeFilter(op, r) ==
    /\ DocumentedFilter(op, r)
    /\ (op = "process_income_statement" => r.CD_CONTA \in {"3.11", "3.01", "3.02"})

CellAt(t, dt, cia, label) ==
    LET i == CHOOSE i \in 1..Len(t.rows) :
                 t.rows[i].DT_REFER = dt /\ t.rows[i].DENOM_CIA = cia
    IN t.rows[i].cells[label]

\* Table t holds the values of the rows R and nothing else (the derived
\* column passivo apart).
HoldsExactly(t, R) ==
    /\ \A r \in R :
           /\ <<r.DT_REFER, r.DENOM_CIA>> \in Keys(t)
           /\ r.DS_CONTA \in Labels(t)
           /\ CellAt(t, r.DT_REFER, r.DENOM_CIA, r.DS_CONTA) = Float(r.VL_CONTA)
    /\ \A k \in Keys(t) : \E r \in R : <<r.DT_REFER, r.DENOM_CIA>> = k
    /\ \A l \in Labels(t) \ {"passivo"} : \E r \in R : r.DS_CONTA = l
    /\ \A k \in Keys(t), l \in Labels(t) \ {"passivo"} :
           ~IsNaN(CellAt(t, k[1], k[2], l)) =>
               \E r \in R : /\ <<r.DT_REFER, r.DENOM_CIA>> = k
                            /\ r.DS_CONTA = l

SameCell(r, q) ==
    /\ r.DT_REFER = q.DT_REFER
    /\ r.DENOM_CIA = q.DENOM_CIA
    /\ r.DS_CONTA = q.DS_CONTA

\* Two rows of the call's input that pass its filter and are the same
\* (period, company, account).
AmbiguousInput ==
    \E i, j \in 1..Len(ret.arg) :
        /\ i < j
        /\ CodeFilter(ret.op, ret.arg[i])
        /\ CodeFilter(ret.op, ret.arg[j])
        /\ SameCell(ret.arg[i], ret.arg[j])

\* C3: a table a reshaper returns has exactly one row per (DT_REFER,
\* DENOM_CIA) pair of its filtered input, and a filtered input with two
\* final rows for the same (period, company, account) makes the reshaper
\* raise instead of returning a table.
C3_PivotUnique ==
    ret.op \in ProcessOps =>
        /\ Returned(ret.val) =>
               /\ \A i, j \in 1..Len(ret.val.rows) :
                      i # j => <<ret.val.rows[i].DT_REFER, ret.val.rows[i].DENOM_CIA>>
                               # <<ret.val.rows[j].DT_REFER, ret.val.rows[j].DENOM_CIA>>
               /\ \A i \in 1..Len(ret.arg) :
                      CodeFilter(ret.op, ret.arg[i]) =>
                          <<ret.arg[i].DT_REFER, ret.arg[i].DENOM_CIA>> \in Keys(ret.val)
        /\ AmbiguousInput => ~Returned(ret.val)

\* C3 witness: a reshaper was fed two final rows of one (period, company,
\* account) carrying different values, and raised.
C3_Witness ==
    /\ ret.op \in ProcessOps
    /\ \E i, j \in 1..Len(ret.arg) :
           /\ i < j
           /\ CodeFilter(ret.op, ret.arg[i])
           /\ CodeFilter(ret.op, ret.arg[j])
           /\ SameCell(ret.arg[i], ret.arg[j])
           /\ ret.arg[i].CD_CONTA = ret.arg[j].CD_CONTA
           /\ ret.arg[i].VL_CONTA # ret.arg[j].VL_CONTA
    /\ ret.val.err = "ValueError"

\* C7 (as claimed): a reshape whose derived column needs an account that
\* no filtered row carries still returns a table; it never raises the
\* missing-column error.
C7_MissingAccountTolerated ==
    (/\ ret.op = "process_balance_sheet"
     /\ \E i \in 1..Len(ret.arg) : CodeFilter(ret.op, ret.arg[i]))
    => ret.val.err # "KeyError"

\* C8 (as claimed): with an empty company universe each reshaper returns a
\* table without rows.
C8_EmptyUniverseEmptyTable ==
    (ret.op \in ProcessOps /\ companies = <<>>) =>
        (Returned(ret.val) /\ ret.val.rows = <<>>)

\* C9 (as claimed): the table a reshaper returns holds exactly the values
\* of the input rows with DS_CONTA in the allow-list, DENOM_CIA in the
\* universe and ORDEM_EXERC final, for the three reshapers alike.
C9_DocumentedFilter ==
    (ret.op \in ProcessOps /\ Returned(ret.val)) =>
        HoldsExactly(ret.val, {r \in Range(ret.arg) : DocumentedFilter(ret.op, r)})

\* C9 (amended): the table a reshaper returns holds exactly the values of
\* the input rows with DS_CONTA in the allow-list, DENOM_CIA in the
\* universe and ORDEM_EXERC final and, for the income statement, CD_CONTA
\* in {3.11, 3.01, 3.02}.
C9_CodeFilter ==
    (ret.op \in ProcessOps /\ Returned(ret.val)) =>
        HoldsExactly(ret.val, {r \in Range(ret.arg) : CodeFilter(ret.op, r)})

\* C9 witness: the income-statement reshaper returned a table holding a
\* kept row while its input also held a final, allow-listed row of a
\* universe company under another account code.
C9_Witness ==
    /\ ret.op = "process_income_statement"
    /\ Returned(ret.val)
    /\ \E r, q \in Range(ret.arg) :
           /\ CodeFilter(ret.op, r)
           /\ DocumentedFilter(ret.op, q)
           /\ ~CodeFilter(ret.op, q)
           /\ <<q.DT_REFER, q.DENOM_CIA>> \notin Keys(ret.val)

(***************************************************************************)
(* Properties of the ratio engine, stated on a call [op, arg, val] and the *)
(* frame _df_dfp it read.  The documented formulas are written over the    *)
(* integer account values of the input rows: a ratio is Numerator /        *)
(* Denominator, times Scale.                                               *)
(***************************************************************************)
FamilyAccounts(op) ==
    CASE op = "calculate_liquidity" -> LiquidityAccounts
      [] op = "calculate_debt" -> DebtAccounts
      [] op = "calculate_efficiency" -> EfficiencyAccounts
      [] op = "calculate_profitability" -> ProfitabilityAccounts

FamilyRatios(op) ==
    CASE op = "calculate_liquidity" ->
             <<"liquidez_imediata", "liquidez_seca", "liquidez_corrente", "liquidez_geral">>
      [] op = "calculate_debt" ->
             <<"divida_pl", "divida_ativos", "divida_ebit", "pl_ativos", "passivos_ativos">>
      [] op = "calculate_efficiency" ->
             <<"margem_bruta", "margem_liquida", "margem_ebit">>
      [] op = "calculate_profitability" -> <<"roic", "roe", "roa">>

\* The liquidity family names its inputs by description, the others by code.
InputField(op) == IF op = "calculate_liquidity" THEN "DS_CONTA" ELSE "CD_CONTA"

NumeratorInputs(n) ==
    CASE n = "liquidez_imediata" -> {"Caixa e Equivalentes de Caixa"}
      [] n = "liquidez_seca" -> {"Ativo Circulante", "Estoques", "Despesas Antecipadas"}
      [] n = "liquidez_corrente" -> {"Ativo Circulante"}
      [] n = "liquidez_geral" -> {"Ativo Circulante", "Ativo Não Circulante"}
      [] n \in {"divida_pl", "divida_ativos", "divida_ebit"} -> {"2.01.04", "2.02.01"}
      [] n = "pl_ativos" -> {"2.03"}
      [] n = "passivos_ativos" -> {"2.01", "2.02"}
      [] n = "margem_bruta" -> {"3.03"}
      [] n = "margem_liquida" -> {"3.11"}
      [] n = "margem_ebit" -> {"3.05"}
      [] n = "roic" -> {"3.05", "3.08"}
      [] n \in {"roe", "roa"} -> {"3.11"}

DenominatorInputs(n) ==
    CASE n \in {"liquidez_imediata", "liquidez_seca", "liquidez_corrente"} ->
             {"Passivo Circulante"}
      [] n = "liquidez_geral" -> {"Passivo Circulante", "Passivo Não Circulante"}
      [] n \in {"divida_pl", "roe"} -> {"2.03"}
      [] n \in {"divida_ativos", "pl_ativos", "passivos_ativos", "roa"} -> {"1"}
      [] n = "divida_ebit" -> {"3.05"}
      [] n \in {"margem_bruta", "margem_liquida", "margem_ebit"} -> {"3.01"}
      [] n = "roic" -> {"2"}

Numerator(n, V(_)) ==
    CASE n = "liquidez_imediata" -> V("Caixa e Equivalentes de Caixa")
      [] n = "liquidez_seca" ->
             V("Ativo Circulante") - V("Estoques") - V("Despesas Antecipadas")
      [] n = "liquidez_corrente" -> V("Ativo Circulante")
      [] n = "liquidez_geral" -> V("Ativo Circulante") + V("Ativo Não Circulante")
      [] n \in {"divida_pl", "divida_ativos", "divida_ebit"} -> V("2.01.04") + V("2.02.01")
      [] n = "pl_ativos" -> V("2.03")
      [] n = "passivos_ativos" -> V("2.01") + V("2.02")
      [] n = "margem_bruta" -> V("3.03")
      [] n = "margem_liquida" -> V("3.11")
      [] n = "margem_ebit" -> V("3.05")
      [] n = "roic" -> V("3.05") - V("3.08")
      [] n \in {"roe", "roa"} -> V("3.11")

Denominator(n, V(_)) ==
    CASE n \in {"liquidez_imediata", "liquidez_seca", "liquidez_corrente"} ->
             V("Passivo Circulante")
      [] n = "liquidez_geral" -> V("Passivo Circulante") + V("Passivo Não Circulante")
      [] n \in {"divida_pl", "roe"} -> V("2.03")
      [] n \in {"divida_ativos", "pl_ativos", "passivos_ativos", "roa"} -> V("1")
      [] n = "divida_ebit" -> V("3.05")
      [] n \in {"margem_bruta", "margem_liquida", "margem_ebit"} -> V("3.01")
      [] n = "roic" -> V("2")

Scale(n) ==
    IF n \in {"margem_bruta", "margem_liquida", "margem_ebit", "roic", "roe", "roa"}
    THEN 100 ELSE 1

\* The final rows of _df_dfp that the family of op reads for (dt, cia) under
\* the label l.
InputRows(op, dt, cia, l) ==
    {i \in 1..Len(df_dfp.long) :
        LET r == df_dfp.long[i]
        IN /\ r.DT_REFER = dt /\ r.DENOM_CIA = cia
           /\ r.CD_CONTA \in FamilyAccounts(op)
           /\ r.ORDEM_EXERC = ULTIMO
           /\ r[InputField(op)] = l}

HasInput(op, row, l) == InputRows(op, row.DT_REFER, row.DENOM_CIA, l) # {}

InputOf(op, row, l) ==
    df_dfp.long[CHOOSE i \in InputRows(op, row.DT_REFER, row.DENOM_CIA, l) : TRUE].VL_CONTA

\* Ratio n of a row has all the inputs of the documented formula and a
\* denominator that is not zero.
Defined(op, row, n) ==
    /\ \A l \in NumeratorInputs(n) \cup DenominatorInputs(n) : HasInput(op, row, l)
    /\ LET V(l) == InputOf(op, row, l) IN Denominator(n, V) # 0

\* The float v is the documented formula of ratio n on the row's inputs.
IsRatio(op, row, n, v) ==
    LET V(l) == InputOf(op, row, l)
    IN /\ IsFin(v)
       /\ v.n * Denominator(n, V) = Scale(n) * Numerator(n, V) * v.d

\* C5 (as claimed): from the two final rows (2023-12-31, ACME S.A., 1.01,
\* Ativo Circulante, 100) and (2023-12-31, ACME S.A., 2.01, Passivo
\* Circulante, 50), ACME S.A. in the universe, calculate_liquidity returns a
\* table with the row (2023-12-31, ACME S.A.) and liquidez_corrente = 2.0.
C5_RoundTrip ==
    (ret.op = "calculate_liquidity" /\ df_dfp = LongFrame(RoundTripRows)) =>
        /\ Returned(ret.val)
        /\ \E i \in 1..Len(ret.val.rows) :
               /\ ret.val.rows[i].DT_REFER = "2023-12-31"
               /\ ret.val.rows[i].DENOM_CIA = "ACME S.A."
               /\ ret.val.rows[i].cells["liquidez_corrente"] = Float(2)

\* C6 (as claimed): in every row of a ratio table, a ratio whose
\* denominator is zero or has a missing input is NaN.
C6_UndefinedIsNaN ==
    (ret.op \in CalculateOps /\ Returned(ret.val)) =>
        \A i \in 1..Len(ret.val.rows), n \in Range(FamilyRatios(ret.op)) :
            LET row == ret.val.rows[i]
                V(l) == InputOf(ret.op, row, l)
            IN (\/ \E l \in DenominatorInputs(n) : ~HasInput(ret.op, row, l)
                \/ Denominator(n, V) = 0)
               => IsNaN(row.cells[n])

\* C10: a ratio table holds DT_REFER, DENOM_CIA and the ratio columns of its
\* family and nothing else, and every ratio with all its inputs present and
\* a non-zero denominator is the documented formula of the row's inputs,
\* the margins and ROIC, ROE, ROA scaled by 100.
C10_RatioFormulas ==
    (ret.op \in CalculateOps /\ Returned(ret.val)) =>
        /\ ret.val.cols = <<"DT_REFER", "DENOM_CIA">> \o FamilyRatios(ret.op)
        /\ \A i \in 1..Len(ret.val.rows) :
               LET row == ret.val.rows[i]
               IN /\ DOMAIN row.cells = Range(FamilyRatios(ret.op))
                  /\ \A n \in Range(FamilyRatios(ret.op)) :
                         Defined(ret.op, row, n) => IsRatio(ret.op, row, n, row.cells[n])

\* C10 witness: a calculation returned a row in which every ratio of the
\* family has its inputs and a non-zero denominator, and the first ratio is
\* not zero.
C10_Witness ==
    /\ ret.op \in CalculateOps
    /\ Returned(ret.val)
    /\ \E i \in 1..Len(ret.val.rows) :
           /\ \A n \in Range(FamilyRatios(ret.op)) : Defined(ret.op, ret.val.rows[i], n)
           /\ ret.val.rows[i].cells[FamilyRatios(ret.op)[1]] # Float(0)

(***************************************************************************)
(* Properties of the collector, stated on the call of                      *)
(* concatenate_statements recorded in data and the files in disk.          *)
(***************************************************************************)
CallYears == data.start_year..data.end_year

Requested == Range(data.statement_types)

FileOf(kind, year) == disk.csv[kind][year]

\* No requested file of the range is malformed.
WellFormedRange ==
    \A kind \in Requested, y \in CallYears : FileOf(kind, y).state # "malformed"

\* Table t holds the rows of the existing files of kind for the years of the
\* call, each once, in ascending year order, and no other row.
HoldsYears(t, kind) ==
    /\ \A i \in 1..Len(t) :
           /\ t[i].kind = kind
           /\ t[i].year \in CallYears
           /\ FileOf(kind, t[i].year).state = "ok"
           /\ t[i] \in Range(FileOf(kind, t[i].year).rows)
    /\ \A y \in CallYears :
           FileOf(kind, y).state = "ok" =>
               \A r \in Range(FileOf(kind, y).rows) : Count(t, r) = 1
    /\ \A i, j \in 1..Len(t) :
           i < j => \/ t[i].year < t[j].year
                    \/ t[i].year = t[j].year /\ t[i].line < t[j].line

\* C11: concatenate_statements skips the years whose file is missing
\* without raising, and each table it returns holds exactly the rows of the
\* years of the range whose files exist, in ascending year order.
C11_MissingYearsSkipped ==
    data.called =>
        /\ WellFormedRange => data.result.err = ""
        /\ data.result.err = "" =>
               \A kind \in Range(data.result.keys) :
                   HoldsYears(data.result.tables[kind], kind)

\* C11 witness: a call over two years returned a table for a kind whose
\* file of the first year is missing and whose file of the second has rows.
C11_Witness ==
    /\ data.called
    /\ data.result.err = ""
    /\ data.start_year < data.end_year
    /\ \E kind \in Range(data.result.keys) :
           /\ FileOf(kind, data.start_year).state = "absent"
           /\ FileOf(kind, data.end_year).state = "ok"
           /\ data.result.tables[kind] # <<>>

\* C12 (as claimed): a malformed file of one year does not make
\* concatenate_statements raise, and the table of its kind still holds the
\* rows of every other year of the range whose file is present and
\* well-formed.
C12_MalformedYearDropped ==
    (data.called /\ ~WellFormedRange) =>
        /\ data.result.err = ""
        /\ \A kind \in Requested, y \in CallYears :
               FileOf(kind, y).state = "ok" =>
                   \A r \in Range(FileOf(kind, y).rows) :
                       r \in Range(data.result.tables[kind])

\* C13 (as claimed): the keys of the mapping concatenate_statements returns
\* are the requested statement kinds, a kind without any file included.
C13_KeysAreRequested ==
    (data.called /\ data.result.err = "") => Range(data.result.keys) = Requested

\* The requested kinds with a file for at least one year of the call.
KindsWithFiles ==
    {kind \in Requested : \E y \in CallYears : FileOf(kind, y).state = "ok"}

\* C13 (amended): the keys of the mapping concatenate_statements returns
\* are exactly the requested kinds that have a file for at least one year
\* of the range, in the order requested; a kind without any file has no key.
C13_KeysAreKindsWithFiles ==
    (data.called /\ data.result.err = "") =>
        /\ Range(data.result.keys) = KindsWithFiles
        /\ data.result.keys =
               SelectSeq(data.statement_types, LAMBDA k : k \in KindsWithFiles)

\* C13 witness: a call returned for two requested kinds, one with a file
\* and one without any file in the range.
C13_Witness ==
    /\ data.called
    /\ data.result.err = ""
    /\ \E a, b \in Requested :
           /\ a \in KindsWithFiles
           /\ \A y \in CallYears : FileOf(b, y).state = "absent"

\* download_dfp has been called by the run and has returned.
DownloadDfpReturned ==
    /\ pc \notin {"run", "write companies", "download dfp"}
    /\ ret.op # "download_company_info"

\* C14: whatever years fail to download, download_dfp attempts a download
\* for every year of the range in ascending order, returns, and its list
\* holds exactly the years whose download succeeded.
C14_DownloadsIndependent ==
    DownloadDfpReturned =>
        /\ attempts = [i \in 1..MaxYears |-> FirstYear + i - 1]
        /\ downloaded = SelectSeq(attempts, LAMBDA y : server.dfp[y].state # "none")
        /\ \A y \in Years : disk.zips[y] = server.dfp[y]

\* C14 witness: the download of the first year failed and the download of
\* the last year was made and succeeded.
C14_Witness ==
    /\ DownloadDfpReturned
    /\ server.dfp[FirstYear].state = "none"
    /\ server.dfp[LastYear].state # "none"
    /\ downloaded = <<LastYear>>

\* The run has left its extraction step.
ExtractFilesLeft == DownloadDfpReturned /\ pc # "extract"

\* C15 (as claimed): an archive that cannot be opened is passed over:
\* extract_files does not raise, the archives of the other years are
\* extracted, and the run goes on to the concatenation.
C15_ExtractionFailureSkipped ==
    ExtractFilesLeft =>
        /\ ret.op # "extract_files"
        /\ \A y \in Years, k \in Kinds :
               (disk.zips[y].state = "good" /\ disk.zips[y].files[k].state # "absent")
                   => disk.csv[k][y] = disk.zips[y].files[k]

\* C16: when the registry fetch fails, run ends with the error at its first
\* step and no step ever writes companies.csv, attempts a download, deletes
\* or writes an archive, extracts a file or starts the concatenation.
C16_RegistryFailureAborts ==
    [][server.cad # "ok" =>
          /\ pc = "run" => (pc' = "failed" /\ ~Returned(ret'.val)
                            /\ ret'.op = "download_company_info")
          /\ pc' \notin {"write companies", "download dfp", "extract",
                         "concatenate", "done"}
          /\ disk'.companies_csv = disk.companies_csv
          /\ disk'.zips = disk.zips
          /\ disk'.csv = disk.csv
          /\ attempts' = attempts
          /\ downloaded' = downloaded
          /\ info' = info]_vars

\* C16 witness: the run failed on the registry fetch with a stale archive
\* on disk, no companies.csv and no download attempt.
C16_Witness ==
    /\ server.cad # "ok"
    /\ pc = "failed"
    /\ ret.op = "download_company_info"
    /\ disk.companies_csv = <<>>
    /\ attempts = <<>>
    /\ \E y \in Years : disk.zips[y] = StaleArchive

SavedNames ==
    <<"balance_sheet.csv", "income_statement.csv", "cash_flow.csv",
      "liquidity.csv", "debt.csv", "efficiency.csv", "profitability.csv">>

\* app.py: the files of data/processed read when the module is loaded, in
\* order
DashboardFiles ==
    <<"names_companies.csv", "bp.csv", "dre.csv", "indic_liq.csv",
      "indic_end.csv", "indic_enf.csv", "indic_rent.csv">>

\* data/processed when the dashboard starts: empty, as a process command
\* that ran to its end leaves it, or with the dashboard's files put there by
\* other means as well.
ProcessedDirs ==
    {{}, Range(SavedNames), Range(SavedNames) \cup Range(DashboardFiles)}

\* The files app.py opens, up to the first one that is not there.
RECURSIVE Opened(_, _)
Opened(dir, i) ==
    IF i > Len(DashboardFiles) THEN <<>>
    ELSE IF DashboardFiles[i] \in dir
         THEN <<DashboardFiles[i]>> \o Opened(dir, i + 1)
         ELSE <<DashboardFiles[i]>>

Symbols == {"PETR4", "VALE3"}

TIMEFRAMES == {"M1", "M5", "M15", "M30", "H1", "H4", "D1", "W1", "MN1"}

Commands == {"collect", "process", "quotes", "dashboard"}

Invocations ==
    [command : Commands \cup {"", "bogus"},
     symbols : BoundedSeq(Symbols, MaxSymbols),
     start_date : {"2020-01-01", "01/01/2020"},
     timeframe : {"D1", "X1"},
     mt5 : {"missing", "refused", "ok"},
     rates : [Symbols -> BOOLEAN],
     save : {"saves", "raises"},
     outcome : {"returns", "raises"},
     child : {"exit 0", "exit 1", "not found"},
     processed : ProcessedDirs]

\* initialized, disconnects and shutdowns count the calls of mt5.initialize
\* that succeeded, of fetcher.disconnect and of mt5.shutdown.
Started(inv) ==
    [argv |-> inv, connected |-> FALSE, initialized |-> 0, disconnects |-> 0,
     shutdowns |-> 0, fetched |-> <<>>, saved |-> <<>>, opened |-> <<>>,
     failure |-> "", code |-> 0]

InitCli ==
    /\ registry = <<>> /\ info = <<>> /\ raw = NoRaw /\ companies = <<>>
    /\ bp = NoTable /\ dre = NoTable /\ dfc = NoTable
    /\ processed = <<>>
    /\ ind_companies = <<>> /\ df_dfp = NoFrame
    /\ ret = NoCall
    /\ server = <<>> /\ disk = <<>> /\ attempts = <<>> /\ downloaded = <<>>
    /\ data = <<>> /\ first = <<>>
    /\ \E inv \in Invocations : cli = Started(inv)
    /\ pc = "main"

cli_rest ==
    <<registry, info, raw, companies, bp, dre, dfc, processed, ind_companies,
      df_dfp, ret, server, disk, attempts, downloaded, data, first>>

\* MT5QuotesFetcher.connect when mt5.initialize succeeds
connect(c) == [c EXCEPT !.connected = TRUE, !.initialized = @ + 1]

\* MT5QuotesFetcher.disconnect: mt5.shutdown only while connected
disconnect(c) ==
    [c EXCEPT !.disconnects = @ + 1,
              !.shutdowns = IF c.connected THEN @ + 1 ELSE @,
              !.connected = FALSE]

\* The process ends in state c with this exit code; failure names what went
\* wrong, "" when nothing did.
ExitFrom(c, code, failure) ==
    /\ pc' = "exited"
    /\ cli' = [c EXCEPT !.code = code, !.failure = failure]

Exit(code, failure) == ExitFrom(cli, code, failure)

\* main: parser.parse_args(), the test of args.command, args.func(args)
Main ==
    /\ pc = "main"
    /\ IF \/ cli.argv.command = "bogus"
          \/ cli.argv.command = "quotes" /\ cli.argv.symbols = <<>>
       THEN Exit(2, "usage")
       ELSE IF cli.argv.command = ""
            THEN Exit(1, "usage")
            ELSE pc' = "cmd_" \o cli.argv.command /\ UNCHANGED cli
    /\ UNCHANGED cli_rest

\* cmd_collect: collector.run(...)
CmdCollect ==
    /\ pc = "cmd_collect"
    /\ IF cli.argv.outcome = "raises" THEN Exit(1, "exception") ELSE Exit(0, "")
    /\ UNCHANGED cli_rest

\* cmd_process: the straight-line body, ended by the first exception
CmdProcess ==
    /\ pc = "cmd_process"
    /\ IF cli.argv.outcome = "raises" THEN Exit(1, "exception") ELSE Exit(0, "")
    /\ UNCHANGED cli_rest

\* cmd_quotes: MT5QuotesFetcher(...) and the test of fetcher.connect()
CmdQuotesConnect ==
    /\ pc = "cmd_quotes"
    /\ CASE cli.argv.mt5 = "missing" -> Exit(1, "exception")
         [] cli.argv.mt5 = "refused" -> Exit(1, "connect")
         [] OTHER -> /\ pc' = "parse dates"
                     /\ cli' = connect(cli)
    /\ UNCHANGED cli_rest

\* The try block left by an exception with the finally clause taken away.
Raise_NoFinally(c) == ExitFrom(c, 1, "exception")

\* cmd_quotes: an exception inside the try block runs the finally clause,
\* fetcher.disconnect(), and then leaves the command.
Raise(c) == ExitFrom(disconnect(c), 1, "exception")

\* cmd_quotes: the first statements of the try block, datetime.strptime of
\* args.start_date with the format %Y-%m-%d
CmdQuotesParseDates ==
    /\ pc = "parse dates"
    /\ IF cli.argv.start_date = "2020-01-01"
       THEN pc' = "fetch" /\ UNCHANGED cli
       ELSE Raise(cli)
    /\ UNCHANGED cli_rest

\* cmd_quotes: one turn of the loop over args.symbols: fetch_quotes, and
\* save_to_parquet when there is data.
CmdQuotesFetch ==
    /\ pc = "fetch"
    /\ Len(cli.fetched) < Len(cli.argv.symbols)
    /\ LET symbol == cli.argv.symbols[Len(cli.fetched) + 1]
           fetched == [cli EXCEPT !.fetched = Append(@, symbol)]
       IN IF ~cli.connected \/ cli.argv.timeframe \notin TIMEFRAMES
          THEN Raise(cli)
          ELSE IF ~cli.argv.rates[symbol]
               THEN cli' = fetched /\ UNCHANGED pc
               ELSE IF cli.argv.save = "raises"
                    THEN Raise(fetched)
                    ELSE /\ cli' = [fetched EXCEPT !.saved = Append(@, symbol)]
                         /\ UNCHANGED pc
    /\ UNCHANGED cli_rest

\* cmd_quotes: the loop is over, finally: fetcher.disconnect()
CmdQuotesDisconnect ==
    /\ pc = "fetch"
    /\ Len(cli.fetched) = Len(cli.argv.symbols)
    /\ ExitFrom(disconnect(cli), 0, "")
    /\ UNCHANGED cli_rest

\* cmd_dashboard: subprocess.run([...]) without check; the status of the
\* child is not looked at.  The child loads app.py, whose module-level
\* read_csv calls raise FileNotFoundError at the first file that is missing.
CmdDashboard ==
    /\ pc = "cmd_dashboard"
    /\ IF cli.argv.child = "not found"
       THEN Exit(1, "exception")
       ELSE LET opened == Opened(cli.argv.processed, 1)
                loaded == Range(opened) \subseteq cli.argv.processed
                c == [cli EXCEPT !.opened = opened]
            IN IF loaded /\ cli.argv.child = "exit 0"
               THEN ExitFrom(c, 0, "")
               ELSE ExitFrom(c, 0, "child failed")
    /\ UNCHANGED cli_rest

NextCli ==
    \/ Main
    \/ CmdCollect
    \/ CmdProcess
    \/ CmdQuotesConnect
    \/ CmdQuotesParseDates
    \/ CmdQuotesFetch
    \/ CmdQuotesDisconnect
    \/ CmdDashboard

SpecCli == InitCli /\ [][NextCli]_vars

(***************************************************************************)
(* A process command that fails.                                           *)
(***************************************************************************)
\* The number of files cmd_process has saved when the step op raises.
SavedBefore(op) ==
    CASE op = "calculate_liquidity" -> 3
      [] op = "calculate_debt" -> 4
      [] op = "calculate_efficiency" -> 5
      [] op = "calculate_profitability" -> 6
      [] OTHER -> 0

\* C19: after a failed process command the files saved before the failing
\* step are in place, in saving order and with the tables they were given,
\* and no later file exists.
C19_PartialOutputsKept ==
    pc = "failed" =>
        /\ Len(processed) = SavedBefore(ret.op)
        /\ \A i \in 1..Len(processed) : processed[i].name = SavedNames[i]
        /\ Len(processed) >= 3 =>
               /\ processed[1].data = bp
               /\ processed[2].data = dre
               /\ processed[3].data = dfc

\* C19 witness: the command failed in a ratio calculation after it had
\* saved the three statement files.
C19_Witness ==
    /\ pc = "failed"
    /\ ret.op \in CalculateOps
    /\ Len(processed) = 3
    /\ Returned(processed[1].data)

(***************************************************************************)
(* Exit codes of the command line.                                         *)
(***************************************************************************)
\* The quotes command that cannot connect ends with code 1 and has neither
\* fetched nor saved a symbol.
QuotesWithoutConnection ==
    (pc = "exited" /\ cli.failure = "connect") =>
        /\ cli.argv.command = "quotes"
        /\ cli.code = 1
        /\ cli.fetched = <<>> /\ cli.saved = <<>>

\* C20: an invocation ends with code 1 when something failed for good and
\* with code 0 when nothing did, and the quotes command that cannot connect
\* ends with code 1 without fetching or saving a symbol.
C20_ExitCodes ==
    pc = "exited" =>
        /\ cli.code = (IF cli.failure = "" THEN 0 ELSE 1)
        /\ cli.failure = "connect" => cli.fetched = <<>> /\ cli.saved = <<>>

(***************************************************************************)
(* The files of data/raw: what a collection run leaves there and what the  *)
(* process command opens.                                                  *)
(***************************************************************************)
\* extract_files, concatenate_statements: dfp_cia_aberta_{stmt_type}_{year}.csv
YearFileName(kind, year) ==
    "dfp_cia_aberta_" \o kind \o "_" \o ToString(year) \o ".csv"

\* process_*: dfp_cia_aberta_{kind}_{start_year}-{end_year}.csv
RangeFileName(kind, start_year, end_year) ==
    "dfp_cia_aberta_" \o kind \o "_" \o ToString(start_year) \o "-"
        \o ToString(end_year) \o ".csv"

\* The names of the files in data/raw, the download and the output directory
\* of the collector.
RawFileNames ==
    (IF disk.cad THEN {"cad_cia_aberta.csv"} ELSE {})
        \cup (IF disk.companies_csv # <<>> THEN {"companies.csv"} ELSE {})
        \cup {"dfp_cia_aberta_" \o ToString(y) \o ".zip" :
                 y \in {z \in Years : disk.zips[z].state # "none"}}
        \cup {YearFileName(f[1], f[2]) :
                 f \in {g \in Kinds \X Years : disk.csv[g[1]][g[2]].state # "absent"}}

\* The names load_companies and the three reshapers of cmd_process open.
ProcessInputNames(start_year, end_year) ==
    {"companies.csv"}
        \cup {RangeFileName(StatementTypes[i], start_year, end_year) :
                 i \in 1..Len(StatementTypes)}

\* C21: when the collection run for the years FirstYear..LastYear has
\* completed, data/raw holds every file the process command opens for the
\* same years: companies.csv and the four range-named statement files.
C21_ProcessFindsInputs ==
    pc = "done" => ProcessInputNames(FirstYear, LastYear) \subseteq RawFileNames

(***************************************************************************)
(* The MetaTrader 5 connection of the quotes command.                      *)
(***************************************************************************)
\* C22: when cmd_quotes has ended after connect() returned True, whether the
\* try block finished or was left by an exception of the date parsing, of
\* fetch_quotes or of save_to_parquet, disconnect() has been called exactly
\* once, mt5.shutdown has been called exactly once and _connected is False;
\* until then the connection is up and shutdown has not been called.
C22_DisconnectedOnce ==
    cli # <<>> /\ cli.initialized > 0 =>
        /\ cli.initialized = 1
        /\ IF pc = "exited"
           THEN cli.disconnects = 1 /\ cli.shutdowns = 1 /\ ~cli.connected
           ELSE cli.disconnects = 0 /\ cli.shutdowns = 0 /\ cli.connected

\* C22 witness: the command ended by an exception of save_to_parquet for
\* the second symbol, after the first had no data, and the connection is
\* down.
C22_Witness ==
    /\ pc = "exited"
    /\ cli.initialized = 1
    /\ cli.failure = "exception"
    /\ cli.argv.timeframe \in TIMEFRAMES
    /\ cli.argv.save = "raises"
    /\ Len(cli.fetched) = 2 /\ cli.saved = <<>>
    /\ cli.shutdowns = 1 /\ ~cli.connected

(***************************************************************************)
(* The files the dashboard reads.                                          *)
(***************************************************************************)
\* C23: when the dashboard has started on the data/processed a process
\* command that ran to its end leaves, every file it opened at start-up is
\* one of the files that command writes.
C23_DashboardReadsProcessOutputs ==
    (pc = "exited" /\ cli.argv.command = "dashboard"
        /\ Range(SavedNames) \subseteq cli.argv.processed) =>
        \A i \in 1..Len(cli.opened) : cli.opened[i] \in Range(SavedNames)

====
